---- MODULE Spec2Model ----
(***************************************************************************)
(* A model of the PFA ("Packed File Archive") library:                     *)
(*   - the builder tree and its insertions   (src/src/writer/pfa_builder)  *)
(*   - the catalog writer                    (src/src/writer/pfa_writer)   *)
(*   - the catalog reader, lookup, traversal (src/src/reader/pfa_reader)   *)
(*   - the per-file transformation pipeline  (src/pfa/src/shared)          *)
(*   - the diff engine                       (src/pfadiff/src/lib.rs)      *)
(* Strings are sequences of one-character strings; byte vectors are        *)
(* sequences of integers in 0..255.                                        *)
(***************************************************************************)
EXTENDS Integers, Sequences, FiniteSets, TLC

VARIABLES
    pc,          \* phase of the builder/reader scenario
    file_tree,   \* PfaBuilder.file_tree
    opCount,     \* number of insertion calls made so far
    lastOp,      \* the last insertion call: [op, path]
    lastResult,  \* its result: "Ok" or the error text
    archive,     \* the result of build(): [res, entries, data]
    files,       \* the files visited by traverse_files("/")
    lookup,      \* the last get_path call: [path, result]
    pfa_name,    \* PfaBuilder.name, the name of the archive
    header,      \* the header build() wrote: [version, len, name, extra]
    fl_pc,       \* phase of the pipeline scenario
    fl_input,    \* the DataFlags and the file data handed to the pipeline
    fl_written,  \* what process_content_and_generate_flags returned
    fl_stored,   \* the payload as it is read back (possibly corrupted)
    fl_corrupt,  \* the bytes changed per block: [header, chunk]
    fl_mis,      \* whether the decoder miscorrects a block it cannot correct
    fl_key,      \* the key handed to unprocess_contents_from_flags
    fl_result,   \* what unprocess_contents_from_flags returned
    d_pc,        \* phase of the diff scenario
    d_in,        \* the files of the two archives: [old, new]
    d_old,       \* the archive old
    d_new,       \* the archive new
    d_made,      \* the PfaDiff of create_diff: removed, added, changed
    d_diff,      \* what create_diff wrote
    d_base,      \* the archive apply_diff is given as old
    d_lists,     \* constructed_diff of apply_diff
    d_tasks,     \* patch_tasks of apply_diff
    d_done,      \* the patch tasks that have run
    d_builder,   \* the tree of the output builder of apply_diff
    d_log,       \* the insertions into the output builder, in order
    d_err,       \* the error of the diff scenario: "Ok" or the error text
    d_out,       \* what apply_diff wrote
    d_exit,      \* how the pfadiff process ended: [code, stdout, stderr]
    d_unpfa,     \* how unpfa --view of the output ended
    r_pc,        \* where PfaReader::new stands in its reads
    r_in,        \* the archive file: [name, extra_data, catalog, data]
    r_src,       \* the byte source: [bytes, pos, buffered, capacity]
    r_reader     \* the PfaReader being constructed, res its outcome

varsB == <<pc, file_tree, opCount, lastOp, lastResult, archive, files,
           lookup, pfa_name, header>>

varsF == <<fl_pc, fl_input, fl_written, fl_stored, fl_corrupt, fl_mis,
           fl_key, fl_result>>

varsD == <<d_pc, d_in, d_old, d_new, d_made, d_diff, d_base, d_lists, d_tasks,
           d_done, d_builder, d_log, d_err, d_out, d_exit, d_unpfa>>

varsR == <<r_pc, r_in, r_src, r_reader>>

vars == <<varsB, varsF, varsD, varsR>>

----------------------------------------------------------------------------
(* Bounds of the model *)

\* number of insertion calls (add_file / add_directory) in a scenario
MaxOps == 3

----------------------------------------------------------------------------
(* Strings *)

\* PfaPath::MAX_SIZE, the width of a catalog entry's name field
MAX_SIZE == 32

\* the NUL byte that pads a fixed-size string
NUL == "NUL"

Rep(c, n) == [i \in 1..n |-> c]

RECURSIVE SplitFrom(_, _, _)
\* str::split('/') from position i on, cur being the segment read so far
SplitFrom(s, i, cur) ==
    IF i > Len(s) THEN <<cur>>
    ELSE IF s[i] = "/" THEN <<cur>> \o SplitFrom(s, i + 1, <<>>)
    ELSE SplitFrom(s, i + 1, Append(cur, s[i]))

\* value.split('/').collect(): "" yields one empty segment
Split(s) == SplitFrom(s, 1, <<>>)

RECURSIVE Join(_)
\* parts.join("/")
Join(parts) ==
    IF Len(parts) = 0 THEN <<>>
    ELSE IF Len(parts) = 1 THEN parts[1]
    ELSE parts[1] \o <<"/">> \o Join(Tail(parts))

starts_with_slash(s) == Len(s) > 0 /\ s[1] = "/"

ends_with_slash(s) == Len(s) > 0 /\ s[Len(s)] = "/"

----------------------------------------------------------------------------
(* The builder tree: src/src/writer/pfa_writer.rs, pfa_builder.rs *)

\* PfaFile::new: always Some.  The bytes of a file are kept in the field
\* `data` (the code calls it contents, like the children of a directory) so
\* that a file and a directory are records over different fields.
PfaFileNew(name, contents) ==
    [kind |-> "File", name |-> name, data |-> contents]

\* PfaDirectory::new wrapped in PfaPath::Directory
PfaDirectoryNew(name, contents) ==
    [kind |-> "Directory", name |-> name, contents |-> contents]

\* PfaBuilder::new: the root directory, named ""
BuilderNew == PfaDirectoryNew(<<>>, <<>>)

\* impl From<String> for PfaBuilderPath
BuilderPathFrom(value0) ==
    LET value == IF starts_with_slash(value0) THEN value0 ELSE <<"/">> \o value0
        parts == Split(value)
    IN  IF ends_with_slash(value)
        THEN [kind |-> "Directory", parts |-> parts, name |-> <<>>]
        ELSE [kind |-> "File",
              parts |-> SubSeq(parts, 1, Len(parts) - 1),
              name |-> parts[Len(parts)]]

\* a mutant of get_directory_index_by_name: no directory is ever found
get_directory_index_by_name_never(name, path) == 0

\* PfaBuilder::get_directory_index_by_name: the 1-based index of the first
\* child directory called name, 0 for None
get_directory_index_by_name(name, path) ==
    IF path.kind = "File" THEN 0
    ELSE LET hits == {i \in 1..Len(path.contents) :
                        /\ path.contents[i].kind = "Directory"
                        /\ path.contents[i].name = name}
         IN  IF hits = {} THEN 0
             ELSE CHOOSE i \in hits : \A j \in hits : i <= j

NoErr == "Ok"

RECURSIVE CreateWalk(_, _, _)
\* the body of PfaBuilder::create from working_path on: the loop over the
\* remaining parts, then the insertion of the file (leaf is <<>> for a
\* directory path, <<name, data>> for a file path).  Returns the error and the
\* subtree as the call leaves it.
CreateWalk(working_path, parts, leaf) ==
    IF Len(parts) = 0
    THEN IF Len(leaf) = 0 THEN [err |-> NoErr, node |-> working_path]
         ELSE IF working_path.kind = "Directory"
         THEN [err |-> NoErr,
               node |-> [working_path EXCEPT
                           !.contents = Append(@, PfaFileNew(leaf[1], leaf[2]))]]
         ELSE [err |-> "attempt to create file in non directory",
               node |-> working_path]
    ELSE LET part == Head(parts)
             found == get_directory_index_by_name(part, working_path)
         IN  IF found = 0 /\ working_path.kind # "Directory"
             THEN [err |-> "attempt to create directory where folder exists",
                   node |-> working_path]
             ELSE LET pushed == IF found = 0
                                THEN [working_path EXCEPT !.contents =
                                        Append(@, PfaDirectoryNew(part, <<>>))]
                                ELSE working_path
                      index == IF found = 0 THEN Len(pushed.contents) ELSE found
                  IN  IF pushed.kind # "Directory" \/ index > Len(pushed.contents)
                      THEN [err |-> "could not get directory", node |-> pushed]
                      ELSE LET sub == CreateWalk(pushed.contents[index],
                                                 Tail(parts), leaf)
                           IN  [err |-> sub.err,
                                node |-> [pushed EXCEPT
                                            !.contents[index] = sub.node]]

\* PfaBuilder::create(path, data): data is <<>> for None, <<bytes>> for Some
create(tree, path, data) ==
    LET parts == Tail(path.parts)   \* pop root
    IN  IF path.kind = "File" /\ Len(data) = 0
        THEN LET w == CreateWalk(tree, parts, <<>>)
             IN  IF w.err # NoErr THEN [err |-> w.err, tree |-> w.node]
                 ELSE [err |-> "attempt to create file with no content",
                       tree |-> w.node]
        ELSE LET w == CreateWalk(tree, parts,
                                 IF path.kind = "File"
                                 THEN <<path.name, data[1]>> ELSE <<>>)
             IN  [err |-> w.err, tree |-> w.node]

\* PfaBuilder::add_directory
add_directory(tree, path0) ==
    LET path == BuilderPathFrom(IF ends_with_slash(path0) THEN path0
                                ELSE Append(path0, "/"))
    IN  IF path.kind = "Directory" THEN create(tree, path, <<>>)
        ELSE [err |-> "called add_directory but provided a file", tree |-> tree]

\* PfaBuilder::add_file
add_file(tree, path0, content) ==
    LET path == BuilderPathFrom(path0)
    IN  IF path.kind = "File" THEN create(tree, path, <<content>>)
        ELSE [err |-> "called add_file but provided a directory", tree |-> tree]

----------------------------------------------------------------------------
(* The catalog writer: src/src/writer/pfa_writer.rs.  The buffer behind the  *)
(* catalog is kept as a sequence of 48-byte entry slots; a position is the   *)
(* 1-based number of a slot, Len + 1 being the end of the buffer.            *)

\* [0; ENTRY_SIZE], a pre-allocated slot
ZeroEntry == [name |-> Rep(NUL, MAX_SIZE), size |-> 0, offset |-> 0]

\* the largest value of a u8
U8_MAX == 255

\* PfaWriter::write_u8_sized_string: string.len() as u8, then the bytes
write_u8_sized_string(string) ==
    [len |-> Len(string) % (U8_MAX + 1), bytes |-> string]

\* PfaWriter::write_header: version, name, size of extra data
write_header(name) ==
    LET sized == write_u8_sized_string(name)
    IN  [version |-> 1, len |-> sized.len, name |-> sized.bytes, extra |-> 0]

\* no header was written
NoHeader == [version |-> 0, len |-> 0, name |-> <<>>, extra |-> 0]

\* PfaWriter::write_nulled_fixed_size_string
write_nulled_fixed_size_string(string, size) ==
    IF Len(string) > size
    THEN [err |-> "string is larger than max string size", bytes |-> <<>>]
    ELSE [err |-> NoErr, bytes |-> string \o Rep(NUL, size - Len(string))]

\* Cursor<Vec<u8>>::write_all of one slot at position pos
WriteSlot(entries, pos, e) ==
    IF pos <= Len(entries) THEN [entries EXCEPT ![pos] = e]
    ELSE Append(entries, e)

\* PfaWriter::write_data_entry (slice is [offset, size]) at the cursor
write_data_entry(st, filename, slice) ==
    LET f == write_nulled_fixed_size_string(filename, MAX_SIZE)
    IN  IF f.err # NoErr THEN [st EXCEPT !.err = f.err]
        ELSE [st EXCEPT
                !.entries = WriteSlot(@, st.pos,
                    [name |-> f.bytes, size |-> slice.size, offset |-> slice.offset]),
                !.pos = st.pos + 1]

\* PfaWriter::write_catalog_entry (slice is [index, size]) at the cursor
write_catalog_entry(st, filename, slice) ==
    LET f == write_nulled_fixed_size_string(Append(filename, "/"), MAX_SIZE)
    IN  IF f.err # NoErr THEN [st EXCEPT !.err = f.err]
        ELSE [st EXCEPT
                !.entries = WriteSlot(@, st.pos,
                    [name |-> f.bytes, size |-> slice.size, offset |-> slice.index]),
                !.pos = st.pos + 1]

\* a first loop that allocates nothing
PreAllocate_none(st, n) == st

RECURSIVE PreAllocate(_, _)
\* the first loop of write_catalog_inner: one zeroed slot per child
PreAllocate(st, n) ==
    IF n = 0 THEN st
    ELSE PreAllocate([st EXCEPT !.entries = WriteSlot(@, st.pos, ZeroEntry),
                                !.pos = st.pos + 1], n - 1)

RECURSIVE write_catalog_inner(_, _)
RECURSIVE WriteChildren(_, _, _, _)

\* the second loop of write_catalog_inner over dir.contents from child k on,
\* base being the slot pre-allocated for the first child
WriteChildren(st, contents, base, k) ==
    IF st.err # NoErr \/ k > Len(contents) THEN st
    ELSE LET child == contents[k]
             idx == base + k - 1
         IN  IF child.kind = "Directory"
             THEN LET atEnd == [st EXCEPT !.pos = Len(st.entries) + 1]
                      end_pos == atEnd.pos - idx
                      inner == write_catalog_inner(atEnd, child)
                      entry == write_catalog_entry([inner EXCEPT !.pos = idx],
                                   child.name,
                                   [index |-> end_pos, size |-> Len(child.contents)])
                  IN  IF inner.err # NoErr THEN inner
                      ELSE IF entry.err # NoErr THEN entry
                      ELSE WriteChildren(
                              [entry EXCEPT !.catalog_len = @ + 1,
                                            !.pos = Len(entry.entries) + 1],
                              contents, base, k + 1)
             ELSE WriteChildren(
                      write_catalog_inner([st EXCEPT !.pos = idx], child),
                      contents, base, k + 1)

\* fn write_catalog_inner(state, path)
write_catalog_inner(st, path) ==
    IF st.err # NoErr THEN st
    ELSE IF path.kind = "File"
    THEN LET data_idx == Len(st.data)
             appended == [st EXCEPT !.data = @ \o path.data]
             entry == write_data_entry(appended, path.name,
                          [offset |-> data_idx, size |-> Len(path.data)])
         IN  IF entry.err # NoErr THEN entry
             ELSE [entry EXCEPT !.catalog_len = @ + 1]
    ELSE WriteChildren(PreAllocate(st, Len(path.contents)),
                       path.contents, st.pos, 1)

\* PfaWriter::write_catalog followed by write_data: the catalog slots, the
\* entry count written before them and the data region
write_catalog(tree) ==
    LET st0 == [entries |-> <<>>, data |-> <<>>, pos |-> 1,
                catalog_len |-> 0, err |-> NoErr]
        root == write_catalog_entry(st0, tree.name,
                    [index |-> 1, size |-> Len(tree.contents)])
    IN  IF root.err # NoErr THEN root
        ELSE write_catalog_inner([root EXCEPT !.catalog_len = 1], tree)

\* PfaBuilder::build -> PfaWriter::generate -> write_pfa
build(tree) ==
    LET st == write_catalog(tree)
    IN  IF st.err # NoErr
        THEN [res |-> st.err, entries |-> <<>>, catalog_len |-> 0, data |-> <<>>]
        ELSE [res |-> NoErr, entries |-> st.entries,
              catalog_len |-> st.catalog_len, data |-> st.data]

----------------------------------------------------------------------------
(* The reader: src/src/reader/pfa_reader.rs *)

RECURSIVE FirstNul(_, _)
\* string_buf.iter().enumerate().find(|x| *x.1 == 0): 0-based, Len if none
FirstNul(buf, i) ==
    IF i > Len(buf) THEN Len(buf)
    ELSE IF buf[i] = NUL THEN i - 1
    ELSE FirstNul(buf, i + 1)

\* PfaReader::read_fixed_sized_string: the prefix up to the first NUL
read_fixed_sized_string(buf) == SubSeq(buf, 1, FirstNul(buf, 1))

\* PfaReader::read_catalog_entry (with read_catalog_slice / read_data_slice)
read_catalog_entry(slot) ==
    LET path == read_fixed_sized_string(slot.name)
    IN  IF ends_with_slash(path)
        THEN [path |-> SubSeq(path, 1, Len(path) - 1), kind |-> "Catalog",
              offset |-> slot.offset, size |-> slot.size]
        ELSE [path |-> path, kind |-> "Data",
              offset |-> slot.offset, size |-> slot.size]

\* PfaReader::new -> read_catalog: num_entries entries, the data region after
ReaderNew(ar) ==
    [entries |-> [i \in 1..ar.catalog_len |-> read_catalog_entry(ar.entries[i])],
     data |-> ar.data]

\* impl From<&str> for PfaPath (reader): the parts
PathFrom(value) == Split(value)

\* PfaPath::is_directory
is_directory(parts) == Len(parts) > 0 /\ parts[Len(parts)] = <<>>

\* PfaPath::append: <<>> for None, <<parts>> for Some
PathAppend(parts, new_parts) ==
    IF Len(parts) = 0 \/ parts[Len(parts)] = <<>>
    THEN <<SubSeq(parts, 1, Len(parts) - 1) \o new_parts>>
    ELSE <<>>

\* impl Display for PfaPath
PathToString(parts) == Join(parts)

NotFound == [kind |-> "None"]

RECURSIVE ListChildren(_, _, _, _)
\* the map(...).collect::<Option<Vec<_>>>() of get_path over the child run
\* entries[from .. from + size): <<>> for None, <<paths>> for Some
ListChildren(rd, path, from, size) ==
    IF size = 0 THEN << <<>> >>
    ELSE LET x == rd.entries[from]
             one == IF x.kind = "Data" THEN PathAppend(path, PathFrom(x.path))
                    ELSE PathAppend(path, PathFrom(Append(x.path, "/")))
             rest == ListChildren(rd, path, from + 1, size - 1)
         IN  IF Len(one) = 0 \/ Len(rest) = 0 THEN <<>>
             ELSE << <<one[1]>> \o rest[1] >>

RECURSIVE GetPathLoop_unbounded(_, _, _, _, _, _, _)
\* a mutant of GetPathLoop: the test `if let Some(0) = remaining_size` is
\* missing, so a scan runs on past the end of the child run
GetPathLoop_unbounded(rd, path, dir, index, remaining, part, parts) ==
    IF index >= Len(rd.entries) THEN NotFound
    ELSE
    LET is_last == Len(parts) = 0
        needs_data_slice == is_last /\ ~dir
        entry == rd.entries[index + 1]
    IN  IF entry.path = part /\ entry.kind = "Data" /\ needs_data_slice
        THEN [kind |-> "File", path |-> path,
              contents |-> SubSeq(rd.data, entry.offset + 1,
                                  entry.offset + entry.size)]
        ELSE IF entry.path = part /\ entry.kind = "Catalog" /\ ~needs_data_slice
        THEN IF is_last
             THEN LET l == ListChildren(rd, path, index + entry.offset + 1,
                                        entry.size)
                  IN  IF Len(l) = 0 THEN NotFound
                      ELSE [kind |-> "Directory", path |-> path,
                            contents |-> l[1]]
             ELSE GetPathLoop_unbounded(rd, path, dir, index + entry.offset,
                                        <<entry.size>>, Head(parts), Tail(parts))
        ELSE GetPathLoop_unbounded(rd, path, dir, index + 1, remaining,
                                   part, parts)

RECURSIVE GetPathLoop(_, _, _, _, _, _, _)
\* the loop of PfaReader::get_path.  index is 0-based as in the code,
\* remaining is <<>> for None and <<n>> for Some(n).  The results are
\* File, Directory, None, Hang (the loop repeats a state for ever) and Panic
\* (an index or slice out of the catalog's range).
GetPathLoop(rd, path, dir, index, remaining, part, parts) ==
    IF index = Len(rd.entries) THEN NotFound
    ELSE IF index > Len(rd.entries) THEN [kind |-> "Panic"]
    ELSE
    LET is_last == Len(parts) = 0
        needs_data_slice == is_last /\ ~dir
        entry == rd.entries[index + 1]
        rem == IF Len(remaining) = 0 THEN remaining ELSE <<remaining[1] - 1>>
    IN  IF entry.path = part
        THEN IF entry.kind = "Data" /\ needs_data_slice
             THEN IF entry.offset + entry.size > Len(rd.data) THEN NotFound
                  ELSE [kind |-> "File", path |-> path,
                        contents |-> SubSeq(rd.data, entry.offset + 1,
                                            entry.offset + entry.size)]
             ELSE IF entry.kind = "Catalog" /\ ~needs_data_slice
             THEN IF is_last
                  THEN LET from == index + entry.offset
                       IN  IF from + entry.size > Len(rd.entries)
                           THEN [kind |-> "Panic"]
                           ELSE LET l == ListChildren(rd, path, from + 1, entry.size)
                                IN  IF Len(l) = 0 THEN NotFound
                                    ELSE [kind |-> "Directory", path |-> path,
                                          contents |-> l[1]]
                  ELSE IF entry.size = 0 THEN NotFound
                  ELSE GetPathLoop(rd, path, dir, index + entry.offset,
                                   <<entry.size>>, Head(parts), Tail(parts))
             ELSE \* the `_ => {}` arm: neither index nor part changes
                  IF Len(rem) = 0 THEN [kind |-> "Hang"]
                  ELSE IF rem[1] = 0 THEN NotFound
                  ELSE GetPathLoop(rd, path, dir, index, rem, part, parts)
        ELSE IF Len(rem) > 0 /\ rem[1] = 0 THEN NotFound
             ELSE GetPathLoop(rd, path, dir, index + 1, rem, part, parts)

RECURSIVE Scan_unbounded(_, _, _, _, _, _, _)
\* a scan whose run counter is never tested: it runs on to the end of the
\* catalog
Scan_unbounded(rd, dir, index, remaining, part, parts, run) ==
    IF index >= Len(rd.entries) THEN {}
    ELSE LET entry == rd.entries[index + 1]
             here == IF Len(remaining) = 0 THEN {}
                     ELSE {[index |-> index, from |-> run.from, size |-> run.size]}
         IN  IF entry.path = part
             THEN IF entry.kind = "Catalog" /\ Len(parts) > 0
                  THEN here \cup Scan_unbounded(rd, dir, index + entry.offset,
                                    <<entry.size>>, Head(parts), Tail(parts),
                                    [from |-> index + entry.offset,
                                     size |-> entry.size])
                  ELSE here
             ELSE here \cup Scan_unbounded(rd, dir, index + 1, remaining, part,
                                           parts, run)

RECURSIVE Scan(_, _, _, _, _, _, _)
\* the reads `entry = &self.catalog.entries[index]` of the loop of get_path
\* made while a child run is being searched (remaining_size is Some): each
\* with the run (from, size) that was entered last
Scan(rd, dir, index, remaining, part, parts, run) ==
    IF index >= Len(rd.entries) THEN {}
    ELSE
    LET is_last == Len(parts) = 0
        needs_data_slice == is_last /\ ~dir
        entry == rd.entries[index + 1]
        rem == IF Len(remaining) = 0 THEN remaining ELSE <<remaining[1] - 1>>
        here == IF Len(remaining) = 0 THEN {}
                ELSE {[index |-> index, from |-> run.from, size |-> run.size]}
    IN  IF entry.path = part
        THEN IF entry.kind = "Data" /\ needs_data_slice THEN here
             ELSE IF entry.kind = "Catalog" /\ ~needs_data_slice
             THEN IF is_last \/ entry.size = 0 THEN here
                  ELSE here \cup Scan(rd, dir, index + entry.offset,
                                      <<entry.size>>, Head(parts), Tail(parts),
                                      [from |-> index + entry.offset,
                                       size |-> entry.size])
             ELSE IF Len(rem) = 0 \/ rem[1] = 0 THEN here
                  ELSE here \cup Scan(rd, dir, index, rem, part, parts, run)
        ELSE IF Len(rem) > 0 /\ rem[1] = 0 THEN here
             ELSE here \cup Scan(rd, dir, index + 1, rem, part, parts, run)

\* the reads of get_path(path) inside child runs
Scanned(rd, path) ==
    LET dir == is_directory(path)
        parts == IF dir THEN SubSeq(path, 1, Len(path) - 1) ELSE path
    IN  IF Len(parts) = 0 THEN {}
        ELSE Scan(rd, dir, 0, <<>>, Head(parts), Tail(parts),
                  [from |-> 0, size |-> 0])

\* PfaReader::get_path on a parsed path
get_path(rd, path) ==
    LET dir == is_directory(path)
        parts == IF dir THEN SubSeq(path, 1, Len(path) - 1) ELSE path
    IN  IF Len(parts) = 0 THEN NotFound
        ELSE GetPathLoop(rd, path, dir, 0, <<>>, Head(parts), Tail(parts))

\* PfaReader::get_directory: None, the directory, or what get_path ran into
get_directory(rd, path) ==
    LET made == IF ~is_directory(path) THEN PathAppend(path, PathFrom(<<>>))
                ELSE <<path>>
    IN  IF Len(made) = 0 THEN NotFound
        ELSE LET r == get_path(rd, made[1])
             IN  IF r.kind = "File" THEN NotFound ELSE r

RECURSIVE traverse_files(_, _)
RECURSIVE TraverseEach(_, _)

\* the `for path in d.contents` loop of traverse_files
TraverseEach(rd, paths) ==
    IF Len(paths) = 0 THEN <<>>
    ELSE traverse_files(rd, Head(paths)) \o TraverseEach(rd, Tail(paths))

\* PfaReader::traverse_files: the files handed to the callback, in order
traverse_files(rd, path) ==
    LET contents == get_path(rd, path)
    IN  IF contents.kind = "File"
        THEN << [path |-> PathToString(contents.path),
                 contents |-> contents.contents] >>
        ELSE IF contents.kind = "Directory"
        THEN TraverseEach(rd, contents.contents)
        ELSE IF contents.kind = "None" THEN <<>>
        ELSE << [path |-> <<contents.kind>>, contents |-> <<>>] >>

----------------------------------------------------------------------------
(* The transformation pipeline: src/pfa/src/shared/data_flags.rs.           *)
(* The three crates the pipeline calls are modelled by their contracts:     *)
(*  - lz4_flex: a lossless, size-prefixed coding (here run-length coding,   *)
(*    which shortens long runs and lengthens short inputs);                 *)
(*  - aes_gcm: a keyed bijection on the plaintext followed by a 16-byte     *)
(*    tag of key, nonce and ciphertext; decryption checks the tag;          *)
(*  - reed_solomon: systematic coding, data followed by ecc parity bytes;   *)
(*    a block with at most ecc / 2 changed bytes is corrected, any other    *)
(*    block is either rejected or corrected to something else.              *)

\* SliceFlags::RESERVED, the reserved bits of the one-flag variant
RESERVED_slice == 254

\* DataFlags::COMPRESSION, ENCRYPTION, ERROR_CORRECTION, RESERVED
COMPRESSION == 1
ENCRYPTION == 2
ERROR_CORRECTION == 4
RESERVED == 248

\* DataFlags::MAX_CHUNK_SIZE
MAX_CHUNK_SIZE == 255

\* the length of the first block: a u64 with 4 parity bytes
FIRST_BLOCK_SIZE == 12

\* the parity bytes of the first block
FIRST_ECC == 4

\* the AES-GCM nonce and tag lengths
NONCE_SIZE == 12
TAG_SIZE == 16

\* bitfield & mask != 0, for a mask of one bit
HasBit(bitfield, mask) == (bitfield \div mask) % 2 = 1

RECURSIVE LittleEndian(_, _)
\* write_u64::<LittleEndian> / the u32 of compress_prepend_size: n bytes of v
LittleEndian(v, n) ==
    IF n = 0 THEN <<>> ELSE <<v % 256>> \o LittleEndian(v \div 256, n - 1)

RECURSIVE ReadLittleEndian(_)
\* read_u64::<LittleEndian> on exactly the bytes given; a value of 2^24 or
\* more, larger than any length of the model, reads as 2^24
ReadLittleEndian(bytes) ==
    IF Len(bytes) = 0 THEN 0
    ELSE IF \E i \in 4..Len(bytes) : bytes[i] # 0 THEN 256 * 256 * 256
    ELSE bytes[1] + 256 * ReadLittleEndian(Tail(bytes))

RECURSIVE Sum(_)
Sum(bytes) == IF Len(bytes) = 0 THEN 0 ELSE bytes[1] + Sum(Tail(bytes))

RECURSIVE RunsFrom(_, _)
\* the run-length coding of bytes from position i on: <<length, byte>> pairs
RunsFrom(bytes, i) ==
    IF i > Len(bytes) THEN <<>>
    ELSE LET same == {j \in i..Len(bytes) : \A k \in i..j : bytes[k] = bytes[i]}
             last == CHOOSE j \in same : \A k \in same : k <= j
         IN  <<last - i + 1, bytes[i]>> \o RunsFrom(bytes, last + 1)

\* lz4_flex::compress_prepend_size: the u32 length, a token, the block
compress_prepend_size(bytes) ==
    LittleEndian(Len(bytes), 4) \o <<0>> \o RunsFrom(bytes, 1)

RECURSIVE Unrun(_)
Unrun(block) ==
    IF Len(block) < 2 THEN <<>>
    ELSE Rep(block[2], block[1]) \o Unrun(Tail(Tail(block)))

\* lz4_flex::decompress_size_prepended: Err on a malformed input
decompress_size_prepended(bytes) ==
    IF Len(bytes) < 5 \/ (Len(bytes) - 5) % 2 # 0 \/ bytes[5] # 0
    THEN [ok |-> FALSE, bytes |-> <<>>]
    ELSE LET out == Unrun(SubSeq(bytes, 6, Len(bytes)))
         IN  IF Len(out) = ReadLittleEndian(SubSeq(bytes, 1, 4))
                /\ compress_prepend_size(out) = bytes
             THEN [ok |-> TRUE, bytes |-> out]
             ELSE [ok |-> FALSE, bytes |-> <<>>]

\* the tag of aes_gcm: TAG_SIZE bytes that depend on key, nonce and ciphertext
GcmTag(key, nonce, ct) ==
    [i \in 1..TAG_SIZE |-> (7 * key[1] + 3 * nonce[1] + Sum(ct) + i) % 256]

\* Aes256Gcm::encrypt: ciphertext followed by the tag
GcmEncrypt(key, nonce, pt) ==
    LET ct == [i \in 1..Len(pt) |-> (pt[i] + key[1] + nonce[1] + i) % 256]
    IN  ct \o GcmTag(key, nonce, ct)

\* Aes256Gcm::decrypt: Err unless the tag is the one of key, nonce, ciphertext
GcmDecrypt(key, nonce, data) ==
    IF Len(data) < TAG_SIZE THEN [ok |-> FALSE, bytes |-> <<>>]
    ELSE LET ct == SubSeq(data, 1, Len(data) - TAG_SIZE)
             tag == SubSeq(data, Len(data) - TAG_SIZE + 1, Len(data))
         IN  IF tag # GcmTag(key, nonce, ct) THEN [ok |-> FALSE, bytes |-> <<>>]
             ELSE [ok |-> TRUE,
                   bytes |-> [i \in 1..Len(ct) |->
                                (ct[i] + 768 - key[1] - nonce[1] - i) % 256]]

\* reed_solomon::Encoder::new(ecc).encode(chunk): the data, then ecc parity bytes
RsEncode(chunk, ecc) ==
    chunk \o [i \in 1..ecc |-> (Sum(chunk) + 31 * i) % 256]

\* (percentage * MAX_CHUNK_SIZE as f32) as usize, the fraction being num / den
EccSize(percentage) == (percentage.num * MAX_CHUNK_SIZE) \div percentage.den

RECURSIVE Chunks(_, _)
\* slice::chunks(n) for n > 0
Chunks(bytes, n) ==
    IF Len(bytes) = 0 THEN <<>>
    ELSE IF Len(bytes) <= n THEN <<bytes>>
    ELSE <<SubSeq(bytes, 1, n)>> \o Chunks(SubSeq(bytes, n + 1, Len(bytes)), n)

RECURSIVE EncodeChunks(_, _)
\* the loop `for chunk in contents.chunks(block_size)` of the forward stage
EncodeChunks(chunks, ecc) ==
    IF Len(chunks) = 0 THEN <<>>
    ELSE RsEncode(Head(chunks), ecc) \o EncodeChunks(Tail(chunks), ecc)

RECURSIVE BlocksFrom(_, _, _)
BlocksFrom(chunks, ecc, from) ==
    IF Len(chunks) = 0 THEN <<>>
    ELSE <<[from |-> from, len |-> Len(Head(chunks)) + ecc, ecc |-> ecc]>>
            \o BlocksFrom(Tail(chunks), ecc, from + Len(Head(chunks)) + ecc)

\* the bounds of the Reed-Solomon blocks the forward stage emits: the first
\* block, then one block per chunk (0-based offset, length, parity bytes)
BlocksOf(chunks, ecc) ==
    <<[from |-> 0, len |-> FIRST_BLOCK_SIZE, ecc |-> FIRST_ECC]>>
        \o BlocksFrom(chunks, ecc, FIRST_BLOCK_SIZE)

\* an automatic mode that keeps the compressed form whatever its length
Smaller_always(compressed_bytes, contents) == TRUE

\* the test of the automatic mode: compressed_bytes.len() < contents.len()
Smaller(compressed_bytes, contents) == Len(compressed_bytes) < Len(contents)

\* DataFlags::process_content_and_generate_flags.  flags is
\* [compression, encryption_key, error_correction], an Option being <<>> or
\* <<value>>; nonce is the nonce drawn by generate_nonce.  The result is the
\* pair (contents, bits), or a panic; blocks records where the Reed-Solomon
\* blocks of contents lie, for the decoder's contract.
process_content_and_generate_flags(flags, file_data, nonce) ==
    LET automatic == flags.compression = "Automatic"
        compressed_bytes == compress_prepend_size(file_data)
        already_compressed == automatic /\ Smaller(compressed_bytes, file_data)
        compression == IF automatic
                       THEN (IF already_compressed THEN "Forced(true)"
                             ELSE "Forced(false)")
                       ELSE flags.compression
        c1 == IF already_compressed THEN compressed_bytes ELSE file_data
        c2 == IF compression = "Forced(true)" /\ ~already_compressed
              THEN compress_prepend_size(c1) ELSE c1
        b2 == IF compression = "Forced(true)" THEN COMPRESSION ELSE 0
        encrypted == Len(flags.encryption_key) > 0
        c3 == IF encrypted
              THEN LittleEndian(Len(nonce), 8) \o nonce
                     \o GcmEncrypt(flags.encryption_key[1], nonce, c2)
              ELSE c2
        b3 == IF encrypted THEN b2 + ENCRYPTION ELSE b2
        corrected == Len(flags.error_correction) > 0
        ecc_size == IF corrected THEN EccSize(flags.error_correction[1]) ELSE 0
        block_size == MAX_CHUNK_SIZE - ecc_size
    IN  IF ~corrected
        THEN [status |-> "Ok", contents |-> c3, bits |-> b3 + RESERVED,
              blocks |-> <<>>]
        ELSE IF block_size <= 0
        THEN \* usize underflow, or slice::chunks(0)
             [status |-> "Panic", contents |-> <<>>, bits |-> 0, blocks |-> <<>>]
        ELSE [status |-> "Ok",
              contents |-> RsEncode(LittleEndian(ecc_size, 8), FIRST_ECC)
                             \o EncodeChunks(Chunks(c3, block_size), ecc_size),
              bits |-> b3 + ERROR_CORRECTION + RESERVED,
              blocks |-> BlocksOf(Chunks(c3, block_size), ecc_size)]

\* the bytes of a and b differ at this many positions (a, b of one length)
Distance(a, b) == Cardinality({i \in 1..Len(a) : a[i] # b[i]})

\* reed_solomon::Decoder::new(ecc).correct(received): received was read at
\* the 0-based offset `from` of the stored payload.  A block written with
\* these bounds and this ecc, at most ecc / 2 bytes of which changed, yields
\* the written data; any other is rejected, or miscorrected when fl_mis.
RsCorrect(received, from, ecc) ==
    LET hits == {i \in 1..Len(fl_written.blocks) :
                    /\ fl_written.blocks[i].from = from
                    /\ fl_written.blocks[i].len = Len(received)
                    /\ fl_written.blocks[i].ecc = ecc}
        sent == SubSeq(fl_written.contents, from + 1, from + Len(received))
    IN  IF hits # {} /\ 2 * Distance(received, sent) <= ecc
        THEN [ok |-> TRUE, data |-> SubSeq(sent, 1, Len(sent) - ecc)]
        ELSE IF fl_mis /\ Len(received) >= ecc
        THEN [ok |-> TRUE,
              data |-> [i \in 1..(Len(received) - ecc) |-> (received[i] + 1) % 256]]
        ELSE [ok |-> FALSE, data |-> <<>>]

RECURSIVE DecodeChunks_uncorrected(_, _, _, _)
\* a mutant of DecodeChunks: the parity bytes of a chunk are dropped and its
\* data bytes are taken as they were read
DecodeChunks_uncorrected(contents, chunk_sizes, from, ecc_size) ==
    IF Len(chunk_sizes) = 0 THEN [status |-> "Ok", contents |-> <<>>]
    ELSE LET chunk_size == Head(chunk_sizes)
         IN  IF from + chunk_size > Len(contents) \/ chunk_size < ecc_size
             THEN [status |-> "Panic", contents |-> <<>>]
             ELSE LET rest == DecodeChunks_uncorrected(contents, Tail(chunk_sizes),
                                                       from + chunk_size, ecc_size)
                  IN  IF rest.status # "Ok" THEN rest
                      ELSE [status |-> "Ok",
                            contents |-> SubSeq(contents, from + 1,
                                                from + chunk_size - ecc_size)
                                         \o rest.contents]

RECURSIVE DecodeChunks(_, _, _, _)
\* the loop `for chunk_size in chunk_sizes` of the reverse stage, the cursor
\* being at the 0-based offset `from`; Panic when read_exact or correct fails
DecodeChunks(contents, chunk_sizes, from, ecc_size) ==
    IF Len(chunk_sizes) = 0 THEN [status |-> "Ok", contents |-> <<>>]
    ELSE LET chunk_size == Head(chunk_sizes)
         IN  IF from + chunk_size > Len(contents)
             THEN [status |-> "Panic", contents |-> <<>>]
             ELSE LET dec == RsCorrect(SubSeq(contents, from + 1, from + chunk_size),
                                       from, ecc_size)
                      rest == DecodeChunks(contents, Tail(chunk_sizes),
                                           from + chunk_size, ecc_size)
                  IN  IF ~dec.ok \/ rest.status # "Ok"
                      THEN [status |-> "Panic", contents |-> <<>>]
                      ELSE [status |-> "Ok", contents |-> dec.data \o rest.contents]

\* chunk_sizes of the reverse stage: num_chunks full chunks and the rest
ChunkSizes(all_chunks_len, num_chunks) ==
    Rep(MAX_CHUNK_SIZE, num_chunks) \o
        (IF all_chunks_len % MAX_CHUNK_SIZE # 0
         THEN <<all_chunks_len % MAX_CHUNK_SIZE>> ELSE <<>>)

\* the error correction stage of unprocess_contents_from_flags
UnprocessEcc(contents) ==
    IF Len(contents) < FIRST_BLOCK_SIZE
    THEN [status |-> "Panic", contents |-> <<>>]   \* contents.len() - 12
    ELSE LET all_chunks_len == Len(contents) - FIRST_BLOCK_SIZE
             num_chunks == all_chunks_len \div MAX_CHUNK_SIZE
             chunk_sizes == ChunkSizes(all_chunks_len, num_chunks)
             first == RsCorrect(SubSeq(contents, 1, FIRST_BLOCK_SIZE), 0, FIRST_ECC)
         IN  IF ~first.ok THEN [status |-> "Panic", contents |-> <<>>]
             ELSE DecodeChunks(contents, chunk_sizes, FIRST_BLOCK_SIZE,
                               ReadLittleEndian(first.data))

\* a mutant of UnprocessDecrypt: the outcome of the authentication is dropped
\* and what follows the nonce is handed back
UnprocessDecrypt_unauthenticated(bitfield, contents, key) ==
    IF ~HasBit(bitfield, ENCRYPTION)
    THEN [status |-> "DecryptUnencryptedFileError", contents |-> <<>>]
    ELSE IF Len(contents) < 8 + NONCE_SIZE
    THEN [status |-> "IOError", contents |-> <<>>]
    ELSE LET dec == GcmDecrypt(key, SubSeq(contents, 9, 8 + NONCE_SIZE),
                               SubSeq(contents, 9 + NONCE_SIZE, Len(contents)))
         IN  IF dec.ok THEN [status |-> "Ok", contents |-> dec.bytes]
             ELSE [status |-> "Ok",
                   contents |-> SubSeq(contents, 9 + NONCE_SIZE, Len(contents))]

\* the decryption stage of unprocess_contents_from_flags, a key being given
UnprocessDecrypt(bitfield, contents, key) ==
    IF ~HasBit(bitfield, ENCRYPTION)
    THEN [status |-> "DecryptUnencryptedFileError", contents |-> <<>>]
    ELSE IF Len(contents) < 8 THEN [status |-> "IOError", contents |-> <<>>]
    ELSE LET nonce_length == ReadLittleEndian(SubSeq(contents, 1, 8))
         IN  IF 8 + nonce_length > Len(contents)
             THEN [status |-> "IOError", contents |-> <<>>]
             ELSE IF nonce_length # NONCE_SIZE
             THEN [status |-> "Panic", contents |-> <<>>]  \* Nonce::from_slice
             ELSE LET dec == GcmDecrypt(key,
                                 SubSeq(contents, 9, 8 + nonce_length),
                                 SubSeq(contents, 9 + nonce_length, Len(contents)))
                  IN  IF dec.ok THEN [status |-> "Ok", contents |-> dec.bytes]
                      ELSE [status |-> "FileDecryptError", contents |-> <<>>]

\* a mutant of unprocess_contents_from_flags: the key is used only where
\* the flag byte has the encryption bit and a key is given
unprocess_contents_from_flags_lax(bitfield, contents0, key) ==
    LET e == IF HasBit(bitfield, ERROR_CORRECTION) THEN UnprocessEcc(contents0)
             ELSE [status |-> "Ok", contents |-> contents0]
        d == IF Len(key) > 0 /\ HasBit(bitfield, ENCRYPTION)
             THEN UnprocessDecrypt(bitfield, e.contents, key[1])
             ELSE e
    IN  IF e.status # "Ok" THEN e
        ELSE IF d.status # "Ok" THEN d
        ELSE IF HasBit(bitfield, COMPRESSION)
        THEN LET z == decompress_size_prepended(d.contents)
             IN  IF z.ok THEN [status |-> "Ok", contents |-> z.bytes]
                 ELSE [status |-> "FailedDecompressionError", contents |-> <<>>]
        ELSE d

\* DataFlags::unprocess_contents_from_flags: key is <<>> or <<key>>; the
\* result is Ok with the contents, a PfaError, or a panic
unprocess_contents_from_flags(bitfield, contents0, key) ==
    LET e == IF HasBit(bitfield, ERROR_CORRECTION) THEN UnprocessEcc(contents0)
             ELSE [status |-> "Ok", contents |-> contents0]
        d == IF Len(key) > 0 THEN UnprocessDecrypt(bitfield, e.contents, key[1])
             ELSE IF HasBit(bitfield, ENCRYPTION)
             THEN [status |-> "EncryptedFileKeyNotProvided", contents |-> <<>>]
             ELSE e
    IN  IF e.status # "Ok" THEN e
        ELSE IF d.status # "Ok" THEN d
        ELSE IF HasBit(bitfield, COMPRESSION)
        THEN LET z == decompress_size_prepended(d.contents)
             IN  IF z.ok THEN [status |-> "Ok", contents |-> z.bytes]
                 ELSE [status |-> "FailedDecompressionError", contents |-> <<>>]
        ELSE d

----------------------------------------------------------------------------
(* The pipeline scenario: a payload is processed, possibly corrupted where  *)
(* it is stored, and unprocessed with some key.                             *)

\* the length of the run of equal bytes among the file data
RunLen == 12

\* the length of a key, [u8; 32]
KEY_SIZE == 32

Key(k) == Rep(k, KEY_SIZE)

\* a run as long as its own compressed form
EvenRun == Rep(5, Len(compress_prepend_size(Rep(5, RunLen))))

FileData == { <<>>, <<1, 2, 3, 4, 5, 7>>, Rep(5, RunLen), EvenRun }

CompressionTypes == {"Automatic", "Forced(true)", "Forced(false)"}

\* error correction fractions: 0.5, 0.96875 and 1.0
Fractions == { [num |-> 1, den |-> 2], [num |-> 31, den |-> 32],
               [num |-> 1, den |-> 1] }

Nonces == { Rep(0, NONCE_SIZE), Rep(9, NONCE_SIZE) }

NoPayload == [status |-> "none", contents |-> <<>>, bits |-> 0, blocks |-> <<>>]

NoResult == [status |-> "none", contents |-> <<>>]

NoCorruption == [header |-> 0, chunk |-> 0]

\* the pipeline scenario is not running
FIdle ==
    /\ fl_pc = "idle"
    /\ fl_input = [flags |-> [compression |-> "Forced(false)",
                              encryption_key |-> <<>>,
                              error_correction |-> <<>>],
                   file_data |-> <<>>]
    /\ fl_written = NoPayload
    /\ fl_stored = <<>>
    /\ fl_corrupt = NoCorruption
    /\ fl_mis = FALSE
    /\ fl_key = <<>>
    /\ fl_result = NoResult

FInit ==
    /\ fl_pc = "init"
    /\ fl_input \in [flags : [compression : CompressionTypes,
                              encryption_key : {<<>>, <<Key(1)>>},
                              error_correction : {<<>>} \cup {<<f>> : f \in Fractions}],
                     file_data : FileData]
    /\ fl_written = NoPayload
    /\ fl_stored = <<>>
    /\ fl_corrupt = NoCorruption
    /\ fl_mis \in BOOLEAN
    /\ fl_key = <<>>
    /\ fl_result = NoResult

\* the first n bytes of the block at the 0-based offset b.from are changed
CorruptBlock(bytes, b, n) ==
    [i \in 1..Len(bytes) |->
        IF i > b.from /\ i <= b.from + n /\ i <= b.from + b.len
        THEN (bytes[i] + 1) % 256 ELSE bytes[i]]

RECURSIVE CorruptBlocks(_, _, _, _, _)
\* kh bytes of the first block and kd bytes of every other block are changed
CorruptBlocks(bytes, blocks, i, kh, kd) ==
    IF i > Len(blocks) THEN bytes
    ELSE CorruptBlocks(CorruptBlock(bytes, blocks[i], IF i = 1 THEN kh ELSE kd),
                       blocks, i + 1, kh, kd)

Process(nonce) ==
    /\ fl_pc = "init"
    /\ fl_written' = process_content_and_generate_flags(
                        fl_input.flags, fl_input.file_data, nonce)
    /\ fl_stored' = fl_written'.contents
    /\ fl_pc' = "processed"
    /\ UNCHANGED <<fl_input, fl_corrupt, fl_mis, fl_key, fl_result>>
    /\ UNCHANGED <<varsB, varsD, varsR>>

\* the numbers of changed bytes tried on a block: none, as many as a decoder
\* with ecc parity bytes corrects, and one more
ErrorCounts(ecc) == {0, ecc \div 2, ecc \div 2 + 1}

ConfiguredEcc ==
    IF Len(fl_input.flags.error_correction) = 0 THEN 0
    ELSE EccSize(fl_input.flags.error_correction[1])

Corrupt ==
    /\ fl_pc = "processed"
    /\ fl_written.status = "Ok"
    /\ HasBit(fl_written.bits, ERROR_CORRECTION)
    /\ \E kh \in ErrorCounts(FIRST_ECC), kd \in ErrorCounts(ConfiguredEcc) :
          /\ kh + kd > 0
          /\ fl_stored' = CorruptBlocks(fl_stored, fl_written.blocks, 1, kh, kd)
          /\ fl_corrupt' = [header |-> kh, chunk |-> kd]
    /\ fl_pc' = "corrupted"
    /\ UNCHANGED <<fl_input, fl_written, fl_mis, fl_key, fl_result>>
    /\ UNCHANGED <<varsB, varsD, varsR>>

Unprocess(key) ==
    /\ fl_pc \in {"processed", "corrupted"}
    /\ fl_written.status = "Ok"
    /\ fl_result' = unprocess_contents_from_flags(fl_written.bits, fl_stored, key)
    /\ fl_key' = key
    /\ fl_pc' = "done"
    /\ UNCHANGED <<fl_input, fl_written, fl_stored, fl_corrupt, fl_mis>>
    /\ UNCHANGED <<varsB, varsD, varsR>>

FNext ==
    \/ \E nonce \in Nonces : Process(nonce)
    \/ Corrupt
    \/ \E key \in {<<>>, <<Key(1)>>, <<Key(2)>>} : Unprocess(key)

----------------------------------------------------------------------------
(* The diff engine: src/pfadiff/src/lib.rs.  It drives the builder and the  *)
(* reader above; every entry is written with DataFlags::auto() and read     *)
(* with no key, which hands back the bytes that were added.  The dmp crate  *)
(* is modelled by its contract: the text of a patch made from old and new   *)
(* contents carries both, and it applies to exactly the old contents.       *)

\* str::replace for one-character patterns
Replace(s, from, to) == [i \in 1..Len(s) |-> IF s[i] = from THEN to ELSE s[i]]

\* String::from_utf8(..).is_ok() for the bytes of the model
IsUtf8(bytes) == \A i \in 1..Len(bytes) : bytes[i] < 128

\* PfaFileContents::get_name -> PfaPath::get_name on a rendered path
get_name(path) ==
    LET parts == PathFrom(path)
        n == Len(parts)
    IN  IF n > 0 /\ parts[n] # <<>> THEN parts[n]
        ELSE IF n > 1 THEN parts[n - 1]
        ELSE <<"internal library error">>

\* dmp.patch_to_text(&dmp.patch_make1(old_contents, new_contents))
patch_to_text(old_contents, new_contents) ==
    <<Len(old_contents)>> \o old_contents \o new_contents

\* dmp.patch_from_text(patch) then dmp.patch_apply(&patches, file_contents)
\* and the test new.1.contains(&false)
patch_apply(patch, file_contents) ==
    IF Len(patch) = 0 \/ patch[1] + 1 > Len(patch)
    THEN [err |-> "error while deserializing patch", text |-> <<>>]
    ELSE LET from == SubSeq(patch, 2, patch[1] + 1)
             to == SubSeq(patch, patch[1] + 2, Len(patch))
         IN  IF from = file_contents THEN [err |-> NoErr, text |-> to]
             ELSE [err |-> "at least 1 patch failed to apply",
                   text |-> file_contents]

\* a traversal that met a lookup which never returns, or which panics
Aborted(traversed) ==
    IF \E i \in 1..Len(traversed) : traversed[i].path = <<"Hang">> THEN "Hang"
    ELSE IF \E i \in 1..Len(traversed) : traversed[i].path = <<"Panic">>
    THEN "Panic"
    ELSE NoErr

RemoveDir == <<"/", "r", "e", "m", "o", "v", "e", "/">>
AddDir == <<"/", "a", "d", "d", "/">>
ChangeDir == <<"/", "c", "h", "a", "n", "g", "e", "/">>
RootDir == <<"/">>

NoDiff == [removed |-> <<>>, added |-> <<>>, changed |-> <<>>, err |-> NoErr]

RECURSIVE ScanOld(_, _, _)
\* the first traversal of create_diff, over the files of old
ScanOld(traversed, new, diff) ==
    IF Len(traversed) = 0 \/ diff.err # NoErr THEN diff
    ELSE LET file == Head(traversed)
             in_new == get_path(new, PathFrom(file.path))
             key == Replace(file.path, "/", "%")
         IN  IF in_new.kind \in {"Hang", "Panic"}
             THEN [diff EXCEPT !.err = in_new.kind]
             ELSE IF in_new.kind = "File"
             THEN IF file.contents # in_new.contents
                  THEN IF IsUtf8(file.contents) /\ IsUtf8(in_new.contents)
                       THEN ScanOld(Tail(traversed), new,
                              [diff EXCEPT !.changed = Append(@,
                                 [path |-> key,
                                  contents |-> patch_to_text(file.contents,
                                                             in_new.contents)])])
                       ELSE [diff EXCEPT !.err = "invalid utf8 string"]
                  ELSE ScanOld(Tail(traversed), new, diff)
             ELSE ScanOld(Tail(traversed), new,
                          [diff EXCEPT !.removed = Append(@, key)])

RECURSIVE ScanNew(_, _, _)
\* the second traversal of create_diff, over the files of new
ScanNew(traversed, old, diff) ==
    IF Len(traversed) = 0 \/ diff.err # NoErr THEN diff
    ELSE LET file == Head(traversed)
             in_old == get_path(old, PathFrom(file.path))
         IN  IF in_old.kind \in {"Hang", "Panic"}
             THEN [diff EXCEPT !.err = in_old.kind]
             ELSE IF in_old.kind = "None"
             THEN ScanNew(Tail(traversed), old,
                    [diff EXCEPT !.added = Append(@,
                       [path |-> Replace(file.path, "/", "%"),
                        contents |-> file.contents])])
             ELSE ScanNew(Tail(traversed), old, diff)

RECURSIVE AddAll(_, _, _)
\* for x in list { builder.add_file(&format!("{prefix}{x.path}"), ..)? }
AddAll(b, prefix, list) ==
    IF Len(list) = 0 \/ b.err # NoErr THEN b
    ELSE AddAll(add_file(b.tree, prefix \o Head(list).path, Head(list).contents),
                prefix, Tail(list))

\* what build() returns when no archive is written
NoArchive(res) == [res |-> res, entries |-> <<>>, catalog_len |-> 0, data |-> <<>>]

\* the error e, unless diff carries an error already
WithErr(diff, e) == IF diff.err # NoErr THEN diff ELSE [diff EXCEPT !.err = e]

\* the two traversals of create_diff
ScanBoth(t_old, t_new, old, new) ==
    ScanNew(t_new, old,
            WithErr(ScanOld(t_old, new, WithErr(NoDiff, Aborted(t_old))),
                    Aborted(t_new)))

\* builder.build() after the insertions, `?` having returned their error
BuildOrErr(b) == IF b.err # NoErr THEN NoArchive(b.err) ELSE build(b.tree)

\* the second half of create_diff: the diff archive of the three lists
Assemble(diff) ==
    IF diff.err # NoErr THEN NoArchive(diff.err)
    ELSE BuildOrErr(
           AddAll(AddAll(AddAll([err |-> NoErr, tree |-> BuilderNew], RemoveDir,
                                [i \in 1..Len(diff.removed) |->
                                    [path |-> diff.removed[i], contents |-> <<>>]]),
                         AddDir, diff.added),
                  ChangeDir, diff.changed))

\* create_diff: the archive written to out, or the error returned
create_diff(old, new) ==
    Assemble(ScanBoth(traverse_files(old, PathFrom(RootDir)),
                      traverse_files(new, PathFrom(RootDir)), old, new))

\* file.get_name().replace('%', "/") with the contents, for each file
Named(t) ==
    [i \in 1..Len(t) |-> [path |-> Replace(get_name(t[i].path), "%", "/"),
                          contents |-> t[i].contents]]

\* constructed_diff from the files under /add/, /remove/ and /change/
Constructed(t_add, t_rem, t_chg) ==
    [added |-> Named(t_add),
     removed |-> [i \in 1..Len(t_rem) |->
                     Replace(get_name(t_rem[i].path), "%", "/")],
     changed |-> Named(t_chg),
     err |-> IF Aborted(t_add) # NoErr THEN Aborted(t_add)
             ELSE IF Aborted(t_rem) # NoErr THEN Aborted(t_rem)
             ELSE IF Aborted(t_chg) # NoErr THEN Aborted(t_chg)
             ELSE IF \E i \in 1..Len(t_chg) : ~IsUtf8(t_chg[i].contents)
             THEN "parsing change patch contents as string"
             ELSE NoErr]

\* the three traversals at the head of apply_diff
ReadDiff(diff) ==
    Constructed(traverse_files(diff, PathFrom(AddDir)),
                traverse_files(diff, PathFrom(RemoveDir)),
                traverse_files(diff, PathFrom(ChangeDir)))

\* st after builder.add_file(..)? returned b
Inserted(st, b, path) ==
    [st EXCEPT !.err = b.err, !.tree = b.tree,
               !.log = Append(@, [group |-> "verbatim", path |-> path])]

\* the traversal of old in apply_diff, constructed_diff having been read
CloneFrom(t_old, lists) ==
    [err |-> IF lists.err # NoErr THEN lists.err ELSE Aborted(t_old),
     tree |-> BuilderNew, tasks |-> <<>>, log |-> <<>>]

RECURSIVE CloneOld(_, _, _)
\* the traversal of old in apply_diff: st is the builder, the patch tasks
\* and the paths inserted so far
CloneOld(traversed, diff, st) ==
    IF Len(traversed) = 0 \/ st.err # NoErr THEN st
    ELSE LET file == Head(traversed)
             hits == {i \in 1..Len(diff.changed) : diff.changed[i].path = file.path}
         IN  IF \E i \in 1..Len(diff.removed) : diff.removed[i] = file.path
             THEN CloneOld(Tail(traversed), diff, st)
             ELSE IF hits # {}
             THEN IF IsUtf8(file.contents)
                  THEN CloneOld(Tail(traversed), diff,
                         [st EXCEPT !.tasks = Append(@,
                            [patch |-> diff.changed[CHOOSE i \in hits :
                                          \A j \in hits : i <= j].contents,
                             file_contents |-> file.contents,
                             path |-> file.path])])
                  ELSE [st EXCEPT !.err = "extracting file contents as utf-8 string"]
             ELSE CloneOld(Tail(traversed), diff,
                           Inserted(st, add_file(st.tree, file.path, file.contents),
                                    file.path))

\* a patch task that skips the test of new.1 and adds the text patch_apply
\* handed back
Patched_unchecked(tree, task, new) == add_file(tree, task.path, new.text)

\* the end of a patch task: new is what patch_apply returned
Patched(tree, task, new) ==
    IF new.err # NoErr THEN [err |-> new.err, tree |-> tree]
    ELSE add_file(tree, task.path, new.text)

\* a patch task whose insertion is lost: its result is Ok and the builder
\* is the one the task found
RunTask_lost(tree, task) == [err |-> NoErr, tree |-> tree]

\* one element of patch_tasks.par_iter().map(..): the patch is applied and
\* the result added under the lock of the builder
RunTask(tree, task) == Patched(tree, task, patch_apply(task.patch, task.file_contents))

----------------------------------------------------------------------------
(* The diff scenario: a diff of two archives is created and applied to the  *)
(* first of them, the patch tasks running in any order.                     *)

\* the exit status of a process whose main returns
EXIT_SUCCESS == 0

\* no process has ended
NoExit == [code |-> EXIT_SUCCESS - 1, stdout |-> <<>>, stderr |-> <<>>]

\* fn main of pfadiff: the error of run() goes to stderr, then main returns
pfadiff_main(result) ==
    [code |-> EXIT_SUCCESS,
     stdout |-> <<>>,
     stderr |-> IF result = NoErr THEN <<>> ELSE <<"ERROR: ", result>>]

\* fn run of unpfa with --view: the file is opened and parsed, the files
\* are listed; out is what the file holds
unpfa_run(out) == IF out.res # NoErr THEN "failed to read PFA file" ELSE NoErr

\* fn main of unpfa: the usage goes to stdout and the error of run() to
\* stderr, then main returns
unpfa_main(result) ==
    [code |-> EXIT_SUCCESS,
     stdout |-> IF result = NoErr THEN <<>>
                ELSE <<"unpfa -- PFA extractor", "usage: unpfa [file_path] (--view)">>,
     stderr |-> IF result = NoErr THEN <<>> ELSE <<"ERROR: ", result>>]

\* a path of two segments whose rendering is longer than a catalog name
DeepPath == <<"/">> \o Rep("d", MAX_SIZE \div 2) \o <<"/">> \o Rep("f", MAX_SIZE \div 2)

\* the files of an archive: each of four paths is absent or has contents
Listing(a, c, p, l) ==
    (IF Len(a) = 0 THEN <<>>
     ELSE << [path |-> <<"/", "a">>, contents |-> a[1]] >>) \o
    (IF Len(c) = 0 THEN <<>>
     ELSE << [path |-> <<"/", "d", "/", "c">>, contents |-> c[1]] >>) \o
    (IF Len(p) = 0 THEN <<>>
     ELSE << [path |-> <<"/", "d", "%", "c">>, contents |-> p[1]] >>) \o
    (IF Len(l) = 0 THEN <<>>
     ELSE << [path |-> DeepPath, contents |-> l[1]] >>)

Listings ==
    { Listing(a, c, p, l) :
        a \in {<<>>, << <<1>> >>, << <<2, 3>> >>},
        c \in {<<>>, << <<1>> >>, << <<2, 3>> >>},
        p \in {<<>>, << <<1>> >>},
        l \in {<<>>, << <<1>> >>} }

\* an archive that is neither side of the diff: apply_diff is handed any
\* archive as old, not only the one the diff was made from
OtherListing == Listing(<< <<1>> >>, << <<2, 3>> >>, <<>>, <<>>)

\* the archive built from a listing
ArchiveOf(listing) ==
    build(AddAll([err |-> NoErr, tree |-> BuilderNew], <<>>, listing).tree)

NoLists == [added |-> <<>>, removed |-> <<>>, changed |-> <<>>, err |-> NoErr]

\* the diff scenario is not running
DIdle ==
    /\ d_pc = "idle"
    /\ d_in = [old |-> <<>>, new |-> <<>>]
    /\ d_old = NoArchive("none")
    /\ d_new = NoArchive("none")
    /\ d_made = NoDiff
    /\ d_diff = NoArchive("none")
    /\ d_base = NoArchive("none")
    /\ d_lists = NoLists
    /\ d_tasks = <<>>
    /\ d_done = {}
    /\ d_builder = BuilderNew
    /\ d_log = <<>>
    /\ d_err = NoErr
    /\ d_out = NoArchive("none")
    /\ d_exit = NoExit
    /\ d_unpfa = NoExit

DInit ==
    /\ d_pc = "init"
    /\ d_in \in [old : Listings, new : Listings]
    /\ d_old = ArchiveOf(d_in.old)
    /\ d_new = ArchiveOf(d_in.new)
    /\ d_made = NoDiff
    /\ d_diff = NoArchive("none")
    /\ d_base = NoArchive("none")
    /\ d_lists = NoLists
    /\ d_tasks = <<>>
    /\ d_done = {}
    /\ d_builder = BuilderNew
    /\ d_log = <<>>
    /\ d_err = NoErr
    /\ d_out = NoArchive("none")
    /\ d_exit = NoExit
    /\ d_unpfa = NoExit

\* create_diff(old, new, out)
DiffCreate ==
    /\ d_pc = "init"
    /\ d_made' = ScanBoth(traverse_files(ReaderNew(d_old), PathFrom(RootDir)),
                          traverse_files(ReaderNew(d_new), PathFrom(RootDir)),
                          ReaderNew(d_old), ReaderNew(d_new))
    /\ d_diff' = create_diff(ReaderNew(d_old), ReaderNew(d_new))
    /\ d_err' = d_diff'.res
    /\ d_pc' = IF d_diff'.res = NoErr THEN "created" ELSE "failed"
    /\ UNCHANGED <<d_in, d_old, d_new, d_base, d_lists, d_tasks, d_done,
                   d_builder, d_log, d_out>>
    /\ UNCHANGED <<d_exit, d_unpfa>>
    /\ UNCHANGED <<varsB, varsF, varsR>>

\* additions that are inserted ahead of every other file
AddedLog_first(log, added) ==
    [i \in 1..Len(added) |-> [group |-> "added", path |-> added[i].path]] \o log

\* the loop `for add in &constructed_diff.added` as the log sees it: one
\* insertion per addition, in the order of the list, after what came before
AddedLog(log, added) ==
    log \o [i \in 1..Len(added) |-> [group |-> "added", path |-> added[i].path]]

\* apply_diff(old, diff, out) up to the parallel stage
ApplyStart ==
    /\ d_pc = "created"
    /\ d_base' \in {d_old, d_new, ArchiveOf(OtherListing)}
    /\ d_lists' = ReadDiff(ReaderNew(d_diff))
    /\ \E t_old \in {traverse_files(ReaderNew(d_base'), PathFrom(RootDir))} :
       \E st \in {CloneOld(t_old, d_lists', CloneFrom(t_old, d_lists'))} :
          /\ d_tasks' = st.tasks
          /\ d_builder' = st.tree
          /\ d_log' = st.log
          /\ d_err' = st.err
          /\ d_pc' = IF st.err = NoErr THEN "patching" ELSE "failed"
    /\ UNCHANGED <<d_in, d_old, d_new, d_made, d_diff, d_done, d_out>>
    /\ UNCHANGED <<d_exit, d_unpfa>>
    /\ UNCHANGED <<varsB, varsF, varsR>>

\* one patch task of the parallel stage, any that has not run yet
ApplyTask ==
    /\ d_pc = "patching"
    /\ \E i \in (1..Len(d_tasks)) \ d_done :
          \E r \in {RunTask(d_builder, d_tasks[i])} :
              /\ d_builder' = r.tree
              /\ d_err' = IF d_err # NoErr THEN d_err ELSE r.err
              /\ d_log' = IF r.err = NoErr
                          THEN Append(d_log, [group |-> "patched",
                                              path |-> d_tasks[i].path])
                          ELSE d_log
              /\ d_done' = d_done \cup {i}
    /\ UNCHANGED <<d_pc, d_in, d_old, d_new, d_made, d_diff, d_base, d_lists,
                   d_tasks, d_out>>
    /\ UNCHANGED <<d_exit, d_unpfa>>
    /\ UNCHANGED <<varsB, varsF, varsR>>

\* the collection of the task results, the additions and the build
ApplyFinish ==
    /\ d_pc = "patching"
    /\ d_done = 1..Len(d_tasks) \/ d_err # NoErr
    /\ IF d_err # NoErr
       THEN /\ d_pc' = "failed"
            /\ UNCHANGED <<d_builder, d_log, d_err, d_out>>
       ELSE \E b \in {AddAll([err |-> NoErr, tree |-> d_builder], <<>>,
                                d_lists.added)} :
            \E out \in {BuildOrErr(b)} :
                /\ d_builder' = b.tree
                /\ d_log' = AddedLog(d_log, d_lists.added)
                /\ d_out' = out
                /\ d_err' = out.res
                /\ d_pc' = IF out.res = NoErr THEN "applied" ELSE "failed"
    /\ UNCHANGED <<d_in, d_old, d_new, d_made, d_diff, d_base, d_lists, d_tasks,
                   d_done>>
    /\ UNCHANGED <<d_exit, d_unpfa>>
    /\ UNCHANGED <<varsB, varsF, varsR>>

\* fn main of pfadiff: run() has returned what the library call returned
PfadiffExit ==
    /\ d_pc \in {"applied", "failed"}
    /\ d_exit = NoExit
    /\ d_exit' = pfadiff_main(d_err)
    /\ UNCHANGED <<d_pc, d_in, d_old, d_new, d_made, d_diff, d_base, d_lists,
                   d_tasks, d_done, d_builder, d_log, d_err, d_out, d_unpfa>>
    /\ UNCHANGED <<varsB, varsF, varsR>>

\* unpfa --view on the file pfadiff was to write
UnpfaExit ==
    /\ d_exit # NoExit
    /\ d_unpfa = NoExit
    /\ d_unpfa' = unpfa_main(unpfa_run(d_out))
    /\ UNCHANGED <<d_pc, d_in, d_old, d_new, d_made, d_diff, d_base, d_lists,
                   d_tasks, d_done, d_builder, d_log, d_err, d_out, d_exit>>
    /\ UNCHANGED <<varsB, varsF, varsR>>

DNext ==
    \/ DiffCreate
    \/ ApplyStart
    \/ ApplyTask
    \/ ApplyFinish
    \/ PfadiffExit
    \/ UnpfaExit

----------------------------------------------------------------------------
(* The builder / writer / reader scenario: insertions, build(), then a      *)
(* reader opened on the bytes and traverse_files("/").                      *)

\* a name one byte longer than the name field
LongName == Rep("x", MAX_SIZE + 1)

\* the path strings handed to add_file and add_directory
PathStrings ==
    { <<"/", "a">>,
      <<"/", "a", "/", "b">>,
      <<"b", "/">>,
      <<"/">> \o LongName }

\* the file contents handed to add_file
Contents == { <<1>>, <<2, 3>> }

NoOp == [op |-> "none", path |-> <<>>, content |-> <<>>,
         conflict |-> FALSE, prev |-> <<>>]

RECURSIVE AncestorIsFile(_, _)
\* walking the directory segments of a path from node: some segment names a
\* child that is a file
AncestorIsFile(node, parts) ==
    IF Len(parts) = 0 \/ node.kind # "Directory" THEN FALSE
    ELSE IF \E i \in 1..Len(node.contents) :
                /\ node.contents[i].kind = "File"
                /\ node.contents[i].name = Head(parts)
    THEN TRUE
    ELSE \E i \in 1..Len(node.contents) :
            /\ node.contents[i].kind = "Directory"
            /\ node.contents[i].name = Head(parts)
            /\ \A j \in 1..(i - 1) : ~(/\ node.contents[j].kind = "Directory"
                                       /\ node.contents[j].name = Head(parts))
            /\ AncestorIsFile(node.contents[i], Tail(parts))

\* the non-empty directory segments an insertion call walks
DirSegments(op, path0) ==
    LET p == BuilderPathFrom(IF op = "add_directory" /\ ~ends_with_slash(path0)
                             THEN Append(path0, "/") ELSE path0)
        segs == Tail(p.parts)
    IN  IF p.kind = "Directory" THEN SubSeq(segs, 1, Len(segs) - 1) ELSE segs

NoLookup ==
    [path |-> <<>>, result |-> [kind |-> "none"], directory |-> [kind |-> "none"]]

\* the path strings handed to get_path and get_directory: rooted ones, and
\* ones with no leading '/'
LookupStrings ==
    { <<"/", "a">>, <<"/", "b">>, <<"/", "c">>,
      <<"/", "a", "/", "b">>, <<"/", "a", "/", "c">>,
      <<"/", "a", "/">>, <<"/", "b", "/">>, <<"/", "c", "/">>,
      <<"a">>, <<"b">>, <<"b", "/">> }

\* archive names: a short one, the longest a u8 can count, and one more
ArchiveNames == { <<"n">>, Rep("n", U8_MAX), Rep("n", U8_MAX + 1) }

BInit ==
    /\ pc = "building"
    /\ file_tree = BuilderNew
    /\ opCount = 0
    /\ lastOp = NoOp
    /\ lastResult = NoErr
    /\ archive = [res |-> "none", entries |-> <<>>, catalog_len |-> 0, data |-> <<>>]
    /\ files = <<>>
    /\ lookup = NoLookup
    /\ pfa_name \in ArchiveNames
    /\ header = NoHeader

\* the builder scenario is not running
BIdle ==
    /\ pc = "idle"
    /\ file_tree = BuilderNew
    /\ opCount = 0
    /\ lastOp = NoOp
    /\ lastResult = NoErr
    /\ archive = [res |-> "none", entries |-> <<>>, catalog_len |-> 0, data |-> <<>>]
    /\ files = <<>>
    /\ lookup = NoLookup
    /\ pfa_name = <<>>
    /\ header = NoHeader

AddFile(p, c) ==
    /\ pc = "building"
    /\ opCount < MaxOps
    /\ LET r == add_file(file_tree, p, c)
       IN  /\ file_tree' = r.tree
           /\ lastResult' = r.err
    /\ lastOp' = [op |-> "add_file", path |-> p, content |-> c,
                  conflict |-> AncestorIsFile(file_tree, DirSegments("add_file", p)),
                  prev |-> <<lastOp.op, lastOp.path>>]
    /\ opCount' = opCount + 1
    /\ UNCHANGED <<pc, archive, files, lookup, pfa_name, header>>
    /\ UNCHANGED <<varsF, varsD, varsR>>

AddDirectory(p) ==
    /\ pc = "building"
    /\ opCount < MaxOps
    /\ LET r == add_directory(file_tree, p)
       IN  /\ file_tree' = r.tree
           /\ lastResult' = r.err
    /\ lastOp' = [op |-> "add_directory", path |-> p, content |-> <<>>,
                  conflict |-> AncestorIsFile(file_tree,
                                              DirSegments("add_directory", p)),
                  prev |-> <<lastOp.op, lastOp.path>>]
    /\ opCount' = opCount + 1
    /\ UNCHANGED <<pc, archive, files, lookup, pfa_name, header>>
    /\ UNCHANGED <<varsF, varsD, varsR>>

Build ==
    /\ pc = "building"
    /\ archive' = build(file_tree)
    /\ header' = IF archive'.res = NoErr THEN write_header(pfa_name) ELSE NoHeader
    /\ pc' = "built"
    /\ UNCHANGED <<file_tree, opCount, lastOp, lastResult, files, lookup,
                   pfa_name>>
    /\ UNCHANGED <<varsF, varsD, varsR>>

Traverse ==
    /\ pc = "built"
    /\ archive.res = NoErr
    /\ files' = traverse_files(ReaderNew(archive), PathFrom(<<"/">>))
    /\ pc' = "read"
    /\ UNCHANGED <<file_tree, opCount, lastOp, lastResult, archive, lookup,
                   pfa_name, header>>
    /\ UNCHANGED <<varsF, varsD, varsR>>

\* reader.get_path(p) and reader.get_directory(p) on the archive that was
\* built
Lookup(p) ==
    /\ pc = "built"
    /\ archive.res = NoErr
    /\ lookup' = [path |-> p,
                  result |-> get_path(ReaderNew(archive), PathFrom(p)),
                  directory |-> get_directory(ReaderNew(archive), PathFrom(p))]
    /\ UNCHANGED <<pc, file_tree, opCount, lastOp, lastResult, archive, files,
                   pfa_name, header>>
    /\ UNCHANGED <<varsF, varsD, varsR>>

----------------------------------------------------------------------------
(* PfaReader::new over a byte source.  pfadiff opens its archives as        *)
(* PfaReader::new(BufReader::new(File::open(..))): the source is a buffered *)
(* file, whose read() hands out what its buffer holds.  The bytes of the    *)
(* source are integers in 0..255.                                           *)

Min(a, b) == IF a < b THEN a ELSE b

\* b"pfa", the watermark write_pfa writes and read_header compares
Watermark == <<112, 102, 97>>

\* the bytes of one catalog entry as write_data_entry / write_catalog_entry
\* write them: the nulled 32-byte name, then size and offset as u64
EntryBytes(e) ==
    e.name \o Rep(0, MAX_SIZE - Len(e.name))
           \o LittleEndian(e.size, 8) \o LittleEndian(e.offset, 8)

RECURSIVE CatalogBytes(_)
CatalogBytes(entries) ==
    IF Len(entries) = 0 THEN <<>>
    ELSE EntryBytes(Head(entries)) \o CatalogBytes(Tail(entries))

\* the file write_pfa lays out: watermark, version, sized name, sized extra
\* data, the number of entries, the catalog, the data region
ArchiveBytes(in) ==
    Watermark \o <<1, Len(in.name)>> \o in.name
              \o <<Len(in.extra_data)>> \o in.extra_data
              \o LittleEndian(Len(in.catalog), 8) \o CatalogBytes(in.catalog)
              \o in.data

\* BufReader::new(File::open(path)): nothing read, nothing buffered.  pos is
\* the stream position, buffered the position the buffer is filled up to.
BufReaderNew(bytes, capacity) ==
    [bytes |-> bytes, pos |-> 0, buffered |-> 0, capacity |-> capacity]

\* <BufReader<File> as Read>::read into a zeroed buffer of `length` bytes:
\* what is left in the buffer is handed out; an empty buffer is refilled
\* from the file first, or bypassed by a request of at least its capacity.
\* n is the number of bytes read, the rest of buf stays zero.
read(src, length) ==
    LET avail == Len(src.bytes) - src.pos
        filled == IF src.pos < src.buffered THEN src.buffered
                  ELSE IF length >= src.capacity THEN src.pos + Min(length, avail)
                  ELSE src.pos + Min(src.capacity, avail)
        n == Min(length, filled - src.pos)
    IN  [n |-> n,
         buf |-> SubSeq(src.bytes, src.pos + 1, src.pos + n) \o Rep(0, length - n),
         src |-> [src EXCEPT !.pos = @ + n, !.buffered = filled]]

RECURSIVE ReadExactFrom(_, _, _)
\* the loop of Read::read_exact: read until the buffer is full, an error
\* when the source is at its end before that
ReadExactFrom(r, length, buf) ==
    IF Len(buf) + r.n = length
    THEN [res |-> NoErr, buf |-> buf \o SubSeq(r.buf, 1, r.n), src |-> r.src]
    ELSE IF r.n = 0
    THEN [res |-> "failed to fill whole buffer", buf |-> <<>>, src |-> r.src]
    ELSE ReadExactFrom(read(r.src, length - Len(buf) - r.n), length,
                       buf \o SubSeq(r.buf, 1, r.n))

\* Read::read_exact, which read_u8 and read_u64 of byteorder call
read_exact(src, length) == ReadExactFrom(read(src, length), length, <<>>)

RECURSIVE FirstZero(_, _)
\* string_buf.iter().enumerate().find(|x| *x.1 == 0) on bytes: Len if none
FirstZero(buf, i) ==
    IF i > Len(buf) THEN Len(buf)
    ELSE IF buf[i] = 0 THEN i - 1
    ELSE FirstZero(buf, i + 1)

\* the rest of PfaReader::read_catalog_entry once the three fields are read:
\* string_buf is the buffer of read_fixed_sized_string
CatalogEntry(string_buf, size, offset) ==
    LET path == SubSeq(string_buf, 1, FirstZero(string_buf, 1))
    IN  IF Len(path) > 0 /\ path[Len(path)] = 47
        THEN [path |-> SubSeq(path, 1, Len(path) - 1), kind |-> "Catalog",
              offset |-> offset, size |-> size]
        ELSE [path |-> path, kind |-> "Data", offset |-> offset, size |-> size]

\* the reader under construction: nothing parsed yet
NoReader ==
    [res |-> NoErr, version |-> 0, name |-> <<>>, extra_data |-> <<>>,
     num_entries |-> 0, entries |-> <<>>, data_idx |-> 0]

\* an Err(PfaError) or a panic ends PfaReader::new
Ended(reader, res) == [reader EXCEPT !.res = res]

\* the archives handed to the reader
ReaderNames == { <<>>, <<110>>, <<110, 97, 109, 101>> }
ReaderExtras == { <<>>, <<7>> }
ReaderCatalogs ==
    { <<>>,
      << [name |-> <<102>>, size |-> 2, offset |-> 0] >>,
      << [name |-> <<100, 47>>, size |-> 1, offset |-> 1],
         [name |-> <<102>>, size |-> 2, offset |-> 0] >> }

\* the capacity of the BufReader; 8192 is DEFAULT_BUF_SIZE of std, the
\* smaller ones stand for it on archives longer than the buffer
Capacities == {4, 16, 64, 8192}

ReaderInputs ==
    { [name |-> n, extra_data |-> x, catalog |-> c,
       data |-> IF Len(c) = 0 THEN <<>> ELSE <<1, 2>>] :
         n \in ReaderNames, x \in ReaderExtras, c \in ReaderCatalogs }

RInit ==
    /\ r_pc = "watermark"
    /\ r_in \in ReaderInputs
    /\ \E capacity \in Capacities :
          r_src = BufReaderNew(ArchiveBytes(r_in), capacity)
    /\ r_reader = NoReader

\* the reader scenario is not running
RIdle ==
    /\ r_pc = "idle"
    /\ r_in = [name |-> <<>>, extra_data |-> <<>>, catalog |-> <<>>, data |-> <<>>]
    /\ r_src = BufReaderNew(<<>>, 1)
    /\ r_reader = NoReader

\* read_header: buf.read(&mut watermark) and the comparison with b"pfa"
ReadWatermark ==
    /\ r_pc = "watermark"
    /\ \E r \in {read(r_src, 3)} :
          /\ r_src' = r.src
          /\ IF r.buf # Watermark
             THEN /\ r_pc' = "failed"
                  /\ r_reader' = Ended(r_reader, "invalid watermark")
             ELSE /\ r_pc' = "version"
                  /\ r_reader' = r_reader
    /\ UNCHANGED r_in
    /\ UNCHANGED <<varsB, varsF, varsD>>

\* read_header: let version = buf.read_u8()?
ReadVersion ==
    /\ r_pc = "version"
    /\ \E v \in {read_exact(r_src, 1)} :
          /\ r_src' = v.src
          /\ IF v.res # NoErr
             THEN /\ r_pc' = "failed"
                  /\ r_reader' = Ended(r_reader, v.res)
             ELSE /\ r_pc' = "name"
                  /\ r_reader' = [r_reader EXCEPT !.version = v.buf[1]]
    /\ UNCHANGED r_in
    /\ UNCHANGED <<varsB, varsF, varsD>>

\* read_header: read_sized_string -> read_sized_buffer: the size as u8, one
\* read() into a buffer of that size, then String::from_utf8
ReadName ==
    /\ r_pc = "name"
    /\ \E size \in {read_exact(r_src, 1)} :
          IF size.res # NoErr
          THEN /\ r_src' = size.src
               /\ r_pc' = "failed"
               /\ r_reader' = Ended(r_reader, size.res)
          ELSE \E r \in {read(size.src, size.buf[1])} :
                  /\ r_src' = r.src
                  /\ IF ~IsUtf8(r.buf)
                     THEN /\ r_pc' = "failed"
                          /\ r_reader' = Ended(r_reader, "invalid utf-8")
                     ELSE /\ r_pc' = "extra_data"
                          /\ r_reader' = [r_reader EXCEPT !.name = r.buf]
    /\ UNCHANGED r_in
    /\ UNCHANGED <<varsB, varsF, varsD>>

\* read_header: read_sized_buffer for the extra data
ReadExtraData ==
    /\ r_pc = "extra_data"
    /\ \E size \in {read_exact(r_src, 1)} :
          IF size.res # NoErr
          THEN /\ r_src' = size.src
               /\ r_pc' = "failed"
               /\ r_reader' = Ended(r_reader, size.res)
          ELSE \E r \in {read(size.src, size.buf[1])} :
                  /\ r_src' = r.src
                  /\ r_pc' = "num_entries"
                  /\ r_reader' = [r_reader EXCEPT !.extra_data = r.buf]
    /\ UNCHANGED r_in
    /\ UNCHANGED <<varsB, varsF, varsD>>

\* read_catalog: num_entries as u64, then Vec::with_capacity(num_entries).
\* A count no model archive holds (2^24 or more, see ReadLittleEndian) is
\* reserved lazily, or ends the process with a capacity overflow or a
\* refused allocation: granted tells which.
ReadNumEntries ==
    /\ r_pc = "num_entries"
    /\ \E c \in {read_exact(r_src, 8)}, granted \in BOOLEAN :
          /\ r_src' = c.src
          /\ IF c.res # NoErr
             THEN /\ r_pc' = "failed"
                  /\ r_reader' = Ended(r_reader, c.res)
             ELSE IF ReadLittleEndian(c.buf) >= 256 * 256 * 256 /\ ~granted
             THEN /\ r_pc' = "failed"
                  /\ r_reader' = Ended(r_reader, "Panic")
             ELSE /\ r_pc' = "entries"
                  /\ r_reader' = [r_reader EXCEPT
                                    !.num_entries = ReadLittleEndian(c.buf)]
    /\ UNCHANGED r_in
    /\ UNCHANGED <<varsB, varsF, varsD>>

\* one turn of the loop of read_catalog: read_catalog_entry, that is
\* read_fixed_sized_string(buf, 32) with its one read(), then size and
\* offset as u64
ReadCatalogEntry ==
    /\ r_pc = "entries"
    /\ Len(r_reader.entries) < r_reader.num_entries
    /\ \E s \in {read(r_src, MAX_SIZE)} :
       \E size \in {read_exact(s.src, 8)} :
       \E offset \in {read_exact(size.src, 8)} :
          /\ r_src' = offset.src
          /\ IF ~IsUtf8(SubSeq(s.buf, 1, FirstZero(s.buf, 1)))
             THEN /\ r_pc' = "failed"
                  /\ r_reader' = Ended(r_reader, "invalid utf-8")
             ELSE IF size.res # NoErr \/ offset.res # NoErr
             THEN /\ r_pc' = "failed"
                  /\ r_reader' = Ended(r_reader, "failed to fill whole buffer")
             ELSE /\ r_pc' = "entries"
                  /\ r_reader' =
                       [r_reader EXCEPT !.entries =
                          Append(@, CatalogEntry(s.buf,
                                                 ReadLittleEndian(size.buf),
                                                 ReadLittleEndian(offset.buf)))]
    /\ UNCHANGED r_in
    /\ UNCHANGED <<varsB, varsF, varsD>>

\* PfaReader::new after read_catalog: data_idx = input.stream_position()
ReaderOpened ==
    /\ r_pc = "entries"
    /\ Len(r_reader.entries) = r_reader.num_entries
    /\ r_pc' = "opened"
    /\ r_reader' = [r_reader EXCEPT !.data_idx = r_src.pos]
    /\ UNCHANGED <<r_in, r_src>>
    /\ UNCHANGED <<varsB, varsF, varsD>>

RNext ==
    \/ ReadWatermark
    \/ ReadVersion
    \/ ReadName
    \/ ReadExtraData
    \/ ReadNumEntries
    \/ ReadCatalogEntry
    \/ ReaderOpened

----------------------------------------------------------------------------

Init == FIdle /\ DIdle /\ RIdle /\ BInit

Next ==
    \/ \E p \in PathStrings, c \in Contents : AddFile(p, c)
    \/ \E p \in PathStrings : AddDirectory(p)
    \/ Build
    \/ \E p \in LookupStrings : Lookup(p)
    \/ Traverse

Spec == Init /\ [][Next]_vars

\* the pipeline scenario
InitFlags == BIdle /\ DIdle /\ RIdle /\ FInit

SpecFlags == InitFlags /\ [][FNext]_vars

InitDiff == BIdle /\ FIdle /\ RIdle /\ DInit

\* the diff scenario
SpecDiff == InitDiff /\ [][DNext]_vars

InitRead == BIdle /\ FIdle /\ DIdle /\ RInit

\* the scenario of opening an archive file
SpecRead == InitRead /\ [][RNext]_vars

----------------------------------------------------------------------------
(* Properties of the builder / writer / reader scenario *)

RECURSIVE TreeFiles(_, _)
RECURSIVE TreeFilesEach(_, _)

TreeFilesEach(prefix, contents) ==
    IF Len(contents) = 0 THEN <<>>
    ELSE TreeFiles(prefix, Head(contents)) \o TreeFilesEach(prefix, Tail(contents))

\* the files of a builder tree, depth-first, each with its rendered path;
\* prefix is the rendered path of the node's parent directory
TreeFiles(prefix, node) ==
    IF node.kind = "File"
    THEN << [path |-> prefix \o node.name, contents |-> node.data] >>
    ELSE TreeFilesEach(prefix \o node.name \o <<"/">>, node.contents)

\* how many times x occurs in the sequence s
Count(s, x) == Cardinality({i \in 1..Len(s) : s[i] = x})

\* two sequences hold the same elements the same number of times
SameBag(s, t) ==
    /\ Len(s) = Len(t)
    /\ \A i \in 1..Len(s) : Count(s, s[i]) = Count(t, s[i])

RECURSIVE Directories(_)
\* the directory nodes of a tree
Directories(node) ==
    IF node.kind = "File" THEN {}
    ELSE {node} \cup UNION {Directories(node.contents[i]) :
                                i \in 1..Len(node.contents)}

RECURSIVE TargetDirectory(_, _)
\* the directory create() reaches by walking parts: at each step the first
\* child directory of that name (<<>> when there is none)
TargetDirectory(node, parts) ==
    IF Len(parts) = 0 THEN <<node>>
    ELSE LET hits == {i \in 1..Len(node.contents) :
                        /\ node.contents[i].kind = "Directory"
                        /\ node.contents[i].name = Head(parts)}
         IN  IF hits = {} THEN <<>>
             ELSE TargetDirectory(
                     node.contents[CHOOSE i \in hits : \A j \in hits : i <= j],
                     Tail(parts))

\* C1: plain round-trip: traversing "/" of a reader opened on build() yields
\* exactly the files of the builder tree, each under its path and with its
\* contents, none missing and none spurious
C1_PlainRoundTrip ==
    pc = "read" => SameBag(files, TreeFiles(<<>>, file_tree))

\* C7: add_file rejects duplicates: after a successful add_file the target
\* directory holds exactly one child of the file's name, and no directory of
\* the tree holds two children of the same name
C7_AddFileRejectsDuplicates ==
    /\ (lastOp.op = "add_file" /\ lastResult = NoErr) =>
          LET p == BuilderPathFrom(lastOp.path)
              d == TargetDirectory(file_tree, Tail(p.parts))
          IN  /\ Len(d) = 1
              /\ Cardinality({i \in 1..Len(d[1].contents) :
                                d[1].contents[i].name = p.name}) = 1
    /\ \A d \in Directories(file_tree) :
          \A i, j \in 1..Len(d.contents) :
              d.contents[i].name = d.contents[j].name => i = j

\* C8: tree conflict: an insertion whose path walks through a segment that
\* exists as a file fails, and no directory holds a file and a directory of
\* the same name
C8_TreeConflict ==
    /\ lastOp.conflict => lastResult # NoErr
    /\ \A d \in Directories(file_tree) :
          \A i, j \in 1..Len(d.contents) :
              (d.contents[i].kind = "File" /\ d.contents[j].kind = "Directory")
                  => d.contents[i].name # d.contents[j].name

\* C9: name errors are reported by the insertion call: build() of a tree made
\* of successful insertions never fails because of a node name
C9_NameLimitAtInsertion ==
    pc \in {"built", "read"} =>
        archive.res # "string is larger than max string size"

RECURSIVE DirectoryExists(_, _)
\* the directories named by the segments exist, nested, from node on
DirectoryExists(node, segs) ==
    IF Len(segs) = 0 THEN node.kind = "Directory"
    ELSE /\ node.kind = "Directory"
         /\ \E i \in 1..Len(node.contents) :
                /\ node.contents[i].kind = "Directory"
                /\ node.contents[i].name = Head(segs)
                /\ DirectoryExists(node.contents[i], Tail(segs))

\* C10: add_directory is idempotent: in every builder state and for every
\* path p, add_directory(p) succeeds, a second add_directory(p) leaves the
\* tree as the first left it, and p with all its ancestors then exists
C10_AddDirectoryIdempotent ==
    \A p \in PathStrings :
        LET once == add_directory(file_tree, p)
            twice == add_directory(once.tree, p)
        IN  /\ once.err = NoErr
            /\ twice.err = NoErr
            /\ twice.tree = once.tree
            /\ DirectoryExists(once.tree, DirSegments("add_directory", p))

\* C10 witness: add_directory(p) was called twice in a row on a tree that
\* already held something else, and the directory is there
C10_Witness ==
    /\ lastOp.op = "add_directory"
    /\ lastOp.prev = <<"add_directory", lastOp.path>>
    /\ lastResult = NoErr
    /\ opCount = MaxOps
    /\ Len(file_tree.contents) = 2
    /\ DirectoryExists(file_tree, DirSegments("add_directory", lastOp.path))

----------------------------------------------------------------------------
(* Properties of the pipeline.                                              *)

ConfiguredKey == fl_input.flags.encryption_key

Restored == [status |-> "Ok", contents |-> fl_input.file_data]

\* the number of bytes of the i-th written block that differ where stored
BlockErrors(i) ==
    LET b == fl_written.blocks[i]
    IN  Distance(SubSeq(fl_stored, b.from + 1, b.from + b.len),
                 SubSeq(fl_written.contents, b.from + 1, b.from + b.len))

\* the header block has at most h changed bytes and every chunk at most c
ErrorsWithin(h, c) ==
    \A i \in 1..Len(fl_written.blocks) :
        BlockErrors(i) <= (IF i = 1 THEN h ELSE c)

\* the stored payload is the written one, up to what the decoders correct
Recoverable == ErrorsWithin(FIRST_ECC \div 2, ConfiguredEcc \div 2)

\* C3: Pipeline round-trip: for every content, every compression mode, with
\* or without a key and with or without error correction, processing
\* returns a payload and a flag byte, and unprocessing them with the same
\* key (or none) returns Ok and the original content.
C3_PipelineRoundTrip ==
    /\ fl_pc # "init" => fl_written.status = "Ok"
    /\ (fl_pc = "done" /\ fl_stored = fl_written.contents /\ fl_key = ConfiguredKey)
          => fl_result = Restored

\* C4: Encryption with key mismatch: content encoded with key k decodes to
\* the original with key k, and decoding it with a key k' other than k
\* returns no content but FileDecryptError.
C4_KeyMismatch ==
    (fl_pc = "done" /\ Len(ConfiguredKey) = 1 /\ Len(fl_key) = 1 /\ Recoverable)
        => IF fl_key = ConfiguredKey
           THEN fl_result = Restored
           ELSE fl_result = [status |-> "FileDecryptError", contents |-> <<>>]

C4_Witness ==
    /\ fl_pc = "done"
    /\ ConfiguredKey = <<Key(1)>>
    /\ fl_key = <<Key(2)>>
    /\ Len(fl_input.file_data) > 0
    /\ fl_result.status = "FileDecryptError"

\* C5: Key/flag mismatch errors: a payload whose flag byte has bit 1 set,
\* decoded with no key, gives EncryptedFileKeyNotProvided; one whose flag
\* byte has bit 1 clear, decoded with a key, gives
\* DecryptUnencryptedFileError; neither returns content.  The payload is one
\* the error correction stage, where the flag byte asks for it, restores.
C5_KeyFlagMismatch ==
    (fl_pc = "done" /\ Recoverable)
        => /\ (HasBit(fl_written.bits, ENCRYPTION) /\ fl_key = <<>>)
                => fl_result = [status |-> "EncryptedFileKeyNotProvided",
                                contents |-> <<>>]
           /\ (~HasBit(fl_written.bits, ENCRYPTION) /\ fl_key # <<>>)
                => fl_result = [status |-> "DecryptUnencryptedFileError",
                                contents |-> <<>>]

C5_Witness ==
    /\ fl_pc = "done"
    /\ ~HasBit(fl_written.bits, ENCRYPTION)
    /\ fl_key = <<Key(1)>>
    /\ Len(fl_input.file_data) > 0
    /\ fl_result.status = "DecryptUnencryptedFileError"

\* C6: ECC recoverability: with ecc = floor(p * 255), a stored payload in
\* which every Reed-Solomon chunk, the leading 12-byte header block
\* included, has at most floor(ecc / 2) changed bytes decodes to the
\* original content.
C6_EccRecoverable ==
    (/\ fl_pc = "done"
     /\ HasBit(fl_written.bits, ERROR_CORRECTION)
     /\ fl_key = ConfiguredKey
     /\ ErrorsWithin(ConfiguredEcc \div 2, ConfiguredEcc \div 2))
        => fl_result = Restored

\* C6 as amended: every chunk has at most floor(ecc / 2) changed bytes and
\* the header block, which is written with 4 parity bytes, at most 2.
C6_EccRecoverableAmended ==
    (/\ fl_pc = "done"
     /\ HasBit(fl_written.bits, ERROR_CORRECTION)
     /\ fl_key = ConfiguredKey
     /\ ErrorsWithin(FIRST_ECC \div 2, ConfiguredEcc \div 2))
        => fl_result = Restored

C6_Witness ==
    /\ fl_pc = "done"
    /\ HasBit(fl_written.bits, ERROR_CORRECTION)
    /\ fl_key = ConfiguredKey
    /\ BlockErrors(1) = FIRST_ECC \div 2
    /\ Len(fl_written.blocks) > 2
    /\ \A i \in 2..Len(fl_written.blocks) :
           BlockErrors(i) > 0 /\ BlockErrors(i) <= ConfiguredEcc \div 2
    /\ \E i \in 2..Len(fl_written.blocks) : BlockErrors(i) = ConfiguredEcc \div 2
    /\ fl_result = Restored

----------------------------------------------------------------------------
(* Properties of the diff engine.                                           *)

\* the files of an archive, as traverse_files("/") visits them
FilesOf(ar) == traverse_files(ReaderNew(ar), PathFrom(RootDir))

\* two listings name the same paths, once each, with the same bytes
SameFiles(x, y) ==
    /\ Len(x) = Len(y)
    /\ {x[i] : i \in 1..Len(x)} = {y[i] : i \in 1..Len(y)}

\* C2: Diff round-trip: for any two archives A and B whose file contents are
\* valid UTF-8, apply_diff(A, create_diff(A, B)) succeeds and produces an
\* archive whose file paths and per-file bytes are those of B.
C2_DiffRoundTrip ==
    /\ d_pc = "failed" => d_base \notin {d_old, NoArchive("none")}
    /\ (d_pc = "applied" /\ d_base = d_old)
           => SameFiles(FilesOf(d_out), FilesOf(d_new))

----------------------------------------------------------------------------
(* Properties of lookup and traversal.                                      *)

RECURSIVE Names(_, _)
\* the segments, walked from the directory node through child directories,
\* end at a child of node's subtree, file or directory
Names(node, segs) ==
    IF Len(segs) = 0 THEN TRUE
    ELSE /\ node.kind = "Directory"
         /\ \E i \in 1..Len(node.contents) :
                /\ node.contents[i].name = Head(segs)
                /\ Names(node.contents[i], Tail(segs))

\* the segments of a '/'-rooted path string, without the leading empty one
\* and the empty one that marks a directory path
Segments(p) ==
    LET parts == Tail(PathFrom(p))
    IN  IF Len(parts) > 0 /\ parts[Len(parts)] = <<>>
        THEN SubSeq(parts, 1, Len(parts) - 1) ELSE parts

\* C11: Not-found is a non-error result: on an archive produced by build(),
\* get_path of a '/'-rooted path that names no file or directory of the
\* tree returns None, not an error, a panic or some other entry.
C11_NotFound ==
    (lookup.path # <<>> /\ ~Names(file_tree, Segments(lookup.path)))
        => lookup.result = NotFound

\* C11 witness: a path was looked up in an archive that holds a file of
\* that name in another directory, and None came back
C11_Witness ==
    /\ lookup.path = <<"/", "b">>
    /\ ~Names(file_tree, Segments(lookup.path))
    /\ Names(file_tree, << <<"a">>, <<"b">> >>)
    /\ lookup.result = NotFound

----------------------------------------------------------------------------
(* Properties of the diff lists.                                            *)

\* the paths of a listing
PathsOf(listing) == {listing[i].path : i \in 1..Len(listing)}

\* the contents a listing gives to one of its paths
ContentsAt(listing, p) ==
    listing[CHOOSE i \in 1..Len(listing) : listing[i].path = p].contents

\* the keys of a list of [path, contents] entries
KeysOf(list) == {list[i].path : i \in 1..Len(list)}

RemovedKeys == {d_made.removed[i] : i \in 1..Len(d_made.removed)}

\* C12: Diff classification: create_diff records a path in 'removed' iff it
\* is a file of old absent from new, in 'changed' iff it is a file of both
\* with different contents, in 'added' (with new's bytes) iff it is a file
\* of new absent from old; a path with equal contents in both is recorded
\* nowhere and the three lists are pairwise disjoint.
C12_DiffClassification ==
    d_pc # "init" =>
        /\ \A p \in PathsOf(d_in.old) \cup PathsOf(d_in.new) :
              LET key == Replace(p, "/", "%")
                  in_old == p \in PathsOf(d_in.old)
                  in_new == p \in PathsOf(d_in.new)
              IN  /\ key \in RemovedKeys <=> (in_old /\ ~in_new)
                  /\ key \in KeysOf(d_made.changed) <=>
                        (/\ in_old /\ in_new
                         /\ ContentsAt(d_in.old, p) # ContentsAt(d_in.new, p))
                  /\ key \in KeysOf(d_made.added) <=> (in_new /\ ~in_old)
                  /\ (in_new /\ ~in_old) =>
                        \E i \in 1..Len(d_made.added) :
                            d_made.added[i] =
                                [path |-> key, contents |-> ContentsAt(d_in.new, p)]
        /\ RemovedKeys \cap KeysOf(d_made.changed) = {}
        /\ RemovedKeys \cap KeysOf(d_made.added) = {}
        /\ KeysOf(d_made.changed) \cap KeysOf(d_made.added) = {}

----------------------------------------------------------------------------
(* Properties of the parallel patch stage.                                  *)

\* the patch tasks whose patch cannot be parsed or has a hunk that fails
FailingTasks ==
    {i \in 1..Len(d_tasks) :
        patch_apply(d_tasks[i].patch, d_tasks[i].file_contents).err # NoErr}

\* C13: Patch failure is all-or-nothing: if any patch task has a patch that
\* cannot be parsed or a hunk that does not apply, apply_diff does not
\* succeed and no byte is written to the output sink, whatever the other
\* tasks did and in whatever order they ran.
C13_PatchAllOrNothing ==
    FailingTasks # {} =>
        /\ d_pc # "applied"
        /\ d_out.res # NoErr
        /\ d_out.entries = <<>>
        /\ d_out.data = <<>>

\* C13 witness: of two patch tasks one applied and was inserted, the other
\* failed, and apply_diff returned the error with nothing written
C13_Witness ==
    /\ d_pc = "failed"
    /\ Len(d_tasks) = 2
    /\ Cardinality(FailingTasks) = 1
    /\ \E i \in 1..Len(d_log) : d_log[i].group = "patched"
    /\ d_err = "at least 1 patch failed to apply"
    /\ d_out = NoArchive("none")

\* the builder apply_diff hands to the parallel stage: a function of the
\* archive passed as old and of the diff alone
CloneTree ==
    CloneOld(FilesOf(d_base), d_lists, CloneFrom(FilesOf(d_base), d_lists)).tree

RECURSIVE TaskFiles(_)
\* the (path, contents) pairs the patch tasks of the set done insert
TaskFiles(done) ==
    IF done = {} THEN <<>>
    ELSE LET i == CHOOSE j \in done : TRUE
             new == patch_apply(d_tasks[i].patch, d_tasks[i].file_contents)
         IN  (IF new.err = NoErr
              THEN << [path |-> d_tasks[i].path, contents |-> new.text] >>
              ELSE <<>>) \o TaskFiles(done \ {i})

\* C14: Interleaving independence of diff-apply: in whatever order the patch
\* tasks run, the files of the output builder are those cloned from old
\* plus exactly one (path, patched contents) pair per task that has run and
\* applied, none lost and none duplicated; once every task has run the
\* files are therefore the same in every interleaving.
C14_InterleavingIndependence ==
    (d_pc = "patching" /\ d_lists.err = NoErr) =>
        SameBag(TreeFiles(<<>>, d_builder),
                TreeFiles(<<>>, CloneTree) \o TaskFiles(d_done))

\* C14 witness: two patch tasks have run, the second of the queue first,
\* and both insertions are in the builder
C14_Witness ==
    /\ d_pc = "patching"
    /\ d_done = {1, 2}
    /\ d_err = NoErr
    /\ Len(d_log) >= 2
    /\ d_log[Len(d_log)] = [group |-> "patched", path |-> d_tasks[1].path]
    /\ d_log[Len(d_log) - 1] = [group |-> "patched", path |-> d_tasks[2].path]
    /\ Len(TreeFiles(<<>>, d_builder)) = Len(TreeFiles(<<>>, CloneTree)) + 2

----------------------------------------------------------------------------
(* Properties of the flag byte and of the automatic mode.                   *)

\* the pipeline ran in the automatic mode with no key and no error correction
AutomaticOnly ==
    /\ fl_pc # "init"
    /\ fl_input.flags.compression = "Automatic"
    /\ fl_input.flags.encryption_key = <<>>
    /\ fl_input.flags.error_correction = <<>>

\* C15: Automatic compression never grows the payload: in the automatic
\* mode with no key and no error correction the compressed form is stored
\* iff it is strictly shorter than the original, the original is stored
\* otherwise, so the stored payload is never longer than the original; the
\* compression bit is set iff the compressed form was stored.
C15_AutomaticNeverGrows ==
    AutomaticOnly =>
        LET original == fl_input.file_data
            compressed == compress_prepend_size(original)
            kept == Len(compressed) < Len(original)
        IN  /\ fl_written.status = "Ok"
            /\ fl_written.contents = IF kept THEN compressed ELSE original
            /\ Len(fl_written.contents) <= Len(original)
            /\ HasBit(fl_written.bits, COMPRESSION) <=> kept

\* C15 witness: the compressed form is exactly as long as the original and
\* the original was stored with the compression bit clear
C15_Witness ==
    /\ AutomaticOnly
    /\ fl_input.file_data = EvenRun
    /\ Len(compress_prepend_size(EvenRun)) = Len(EvenRun)
    /\ fl_written.contents = EvenRun
    /\ ~HasBit(fl_written.bits, COMPRESSION)

\* the payload was stored compressed: compression was forced, or the
\* automatic mode found the compressed form shorter
StoredCompressed ==
    \/ fl_input.flags.compression = "Forced(true)"
    \/ /\ fl_input.flags.compression = "Automatic"
       /\ Len(compress_prepend_size(fl_input.file_data)) < Len(fl_input.file_data)

\* C16: Flag byte encoding: in the byte process_content_and_generate_flags
\* returns, bit 0 is set iff the payload was stored compressed, bit 1 iff a
\* key was configured, bit 2 iff error correction was configured, and bits
\* 3-7 are all set: 0b11111000 when no stage applies and 0b11111001 for
\* forced compression alone.
C16_FlagByte ==
    (fl_pc # "init" /\ fl_written.status = "Ok") =>
        LET bits == fl_written.bits
            keyed == fl_input.flags.encryption_key # <<>>
            corrected == fl_input.flags.error_correction # <<>>
        IN  /\ bits \in 0..255
            /\ HasBit(bits, COMPRESSION) <=> StoredCompressed
            /\ HasBit(bits, ENCRYPTION) <=> keyed
            /\ HasBit(bits, ERROR_CORRECTION) <=> corrected
            /\ bits \div 8 = 31
            /\ (~StoredCompressed /\ ~keyed /\ ~corrected) => bits = 248
            /\ (/\ fl_input.flags.compression = "Forced(true)"
                /\ ~keyed /\ ~corrected) => bits = 249

\* C16 witness: compression forced on an empty input, no key and no error
\* correction, and the byte is 0b11111001 although the payload grew
C16_Witness ==
    /\ fl_pc # "init"
    /\ fl_input.flags = [compression |-> "Forced(true)",
                         encryption_key |-> <<>>, error_correction |-> <<>>]
    /\ fl_input.file_data = <<>>
    /\ fl_written.bits = 249
    /\ fl_written.contents = compress_prepend_size(<<>>)

----------------------------------------------------------------------------
(* Properties of the traversal.                                             *)

\* C17: Traversal order and coverage: traverse_files("/", visit) hands visit
\* exactly the files of the tree, once each, depth-first, the children of
\* each directory in insertion order (a directory's subtree at the place
\* where the directory was first created).
C17_TraversalOrder ==
    pc = "read" => files = TreeFiles(<<>>, file_tree)

----------------------------------------------------------------------------
(* Properties of the strings of an archive.                                 *)

RECURSIVE SlotNames(_)
\* the names the catalog holds for a tree: a file's name, a directory's
\* name with its trailing '/'
SlotNames(node) ==
    IF node.kind = "File" THEN {node.name}
    ELSE {Append(node.name, "/")} \cup
         UNION {SlotNames(node.contents[i]) : i \in 1..Len(node.contents)}

\* C18: No silent string overflow: build() fails whenever the archive name
\* is longer than 255 bytes or a catalog name, a directory's with its
\* trailing '/', is longer than 32 bytes; in an archive that was written
\* the length byte of the name is the length of the name, and the name and
\* every catalog name are whole.
C18_NoSilentOverflow ==
    pc \in {"built", "read"} =>
        /\ Len(pfa_name) > U8_MAX => archive.res # NoErr
        /\ (\E n \in SlotNames(file_tree) : Len(n) > MAX_SIZE)
              => archive.res # NoErr
        /\ archive.res = NoErr =>
              /\ header.name = pfa_name
              /\ header.len = Len(pfa_name)
              /\ \A n \in SlotNames(file_tree) :
                    \E i \in 1..Len(archive.entries) :
                        archive.entries[i].name = n \o Rep(NUL, MAX_SIZE - Len(n))

----------------------------------------------------------------------------
(* Properties of the command line tools.                                    *)

\* C19: CLI exit status: pfadiff and unpfa end with exit code 0 exactly when
\* the requested operation succeeded; whenever run() returns an error the
\* exit code is not 0 and the error is written to stderr.
C19_ExitStatus ==
    /\ d_exit # NoExit =>
          /\ d_exit.code = 0 <=> d_err = NoErr
          /\ d_err # NoErr => d_exit.stderr # <<>>
    /\ d_unpfa # NoExit =>
          /\ d_unpfa.code = 0 <=> unpfa_run(d_out) = NoErr
          /\ unpfa_run(d_out) # NoErr => d_unpfa.stderr # <<>>

----------------------------------------------------------------------------
(* Properties of the catalog.                                               *)
(* The code counts entries from 0, the sequence archive.entries from 1:     *)
(* the entry at index i of the code is archive.entries[i + 1].              *)

\* the directory entries of the catalog, by position in archive.entries
DirectorySlots ==
    {i \in 1..Len(archive.entries) :
        read_catalog_entry(archive.entries[i]).kind = "Catalog"}

\* the positions of the child run of the directory entry at position i
Run(i) ==
    {i + archive.entries[i].offset + k : k \in 0..(archive.entries[i].size - 1)}

\* the slot name of a node of the tree, as the catalog stores it
SlotName(node) ==
    LET n == IF node.kind = "File" THEN node.name ELSE Append(node.name, "/")
    IN  n \o Rep(NUL, MAX_SIZE - Len(n))

RECURSIVE RunHolds(_, _)
\* the run of the directory entry at position i holds exactly the children
\* of the directory node, in insertion order, and so on below it
RunHolds(node, i) ==
    /\ i \in DirectorySlots
    /\ archive.entries[i].size = Len(node.contents)
    /\ Run(i) \subseteq 1..Len(archive.entries)
    /\ \A k \in 1..Len(node.contents) :
          LET j == i + archive.entries[i].offset + k - 1
              child == node.contents[k]
          IN  /\ archive.entries[j].name = SlotName(child)
              /\ IF child.kind = "Directory" THEN RunHolds(child, j)
                 ELSE /\ j \notin DirectorySlots
                      /\ archive.entries[j].size = Len(child.data)

\* C20: Catalog child-run invariant: in a catalog build() emitted the root
\* is entry 0 with slice (1, number of root children); for every directory
\* entry at index i with slice (offset, size), offset >= 1 and the run
\* [i + offset, i + offset + size) lies within the catalog, holds exactly
\* that directory's children in insertion order and overlaps no other
\* directory's run.
C20_ChildRuns ==
    (pc \in {"built", "read"} /\ archive.res = NoErr) =>
        /\ archive.entries[1].name = SlotName(file_tree)
        /\ archive.entries[1].offset = 1
        /\ archive.entries[1].size = Len(file_tree.contents)
        /\ RunHolds(file_tree, 1)
        /\ \A i \in DirectorySlots :
              /\ archive.entries[i].offset >= 1
              /\ Run(i) \subseteq 1..Len(archive.entries)
              /\ \A j \in DirectorySlots \ {i} : Run(i) \cap Run(j) = {}

\* C20 witness: a directory that is not the root has a child, and its run
\* does not start at the entry after its own
C20_Witness ==
    /\ pc = "built"
    /\ archive.res = NoErr
    /\ \E i \in DirectorySlots \ {1} :
          /\ archive.entries[i].size >= 1
          /\ archive.entries[i].offset >= 2

----------------------------------------------------------------------------
(* Properties of the lookup loop.                                           *)

\* the reads the last lookup made inside child runs
LookupScanned == Scanned(ReaderNew(archive), PathFrom(lookup.path))

\* C21: Lookup stays inside the child run: every entry get_path compares
\* with a segment while it searches a directory lies in that directory's
\* child run, the run being the one a directory entry of the catalog
\* names; no entry of another directory's run is compared or matched.
C21_LookupInsideRun ==
    lookup.path # <<>> =>
        \A s \in LookupScanned :
            /\ s.from <= s.index
            /\ s.index < s.from + s.size
            /\ \E i \in DirectorySlots :
                  /\ i - 1 + archive.entries[i].offset = s.from
                  /\ archive.entries[i].size = s.size

\* C21 witness: a file in a subdirectory was found by a lookup that
\* searched two runs, while a third directory has a run of its own
C21_Witness ==
    /\ lookup.path = <<"/", "a", "/", "b">>
    /\ lookup.result.kind = "File"
    /\ Cardinality({s.from : s \in LookupScanned}) = 2
    /\ \E i \in DirectorySlots : archive.entries[i].size > 0 /\
          \A s \in LookupScanned : i - 1 + archive.entries[i].offset # s.from

----------------------------------------------------------------------------
(* Properties of the error correction framing.                              *)

\* C22: ECC chunk framing is invertible: for every payload and fraction the
\* forward stage returns, its output is the 12-byte header block followed
\* by one (chunk_len + ecc)-byte block per chunk, and the chunk sizes the
\* reader infers from the length alone are exactly the lengths of the
\* emitted blocks.
C22_EccFraming ==
    (fl_pc # "init" /\ fl_input.flags.error_correction # <<>>) =>
        LET blocks == fl_written.blocks
            all == Len(fl_written.contents) - FIRST_BLOCK_SIZE
        IN  /\ fl_written.status = "Ok"
            /\ Len(blocks) >= 1
            /\ blocks[1] = [from |-> 0, len |-> FIRST_BLOCK_SIZE, ecc |-> FIRST_ECC]
            /\ \A i \in 2..Len(blocks) :
                  blocks[i].from = blocks[i - 1].from + blocks[i - 1].len
            /\ blocks[Len(blocks)].from + blocks[Len(blocks)].len
                  = Len(fl_written.contents)
            /\ ChunkSizes(all, all \div MAX_CHUNK_SIZE)
                  = [i \in 1..(Len(blocks) - 1) |-> blocks[i + 1].len]

----------------------------------------------------------------------------
(* Properties of the reverse pipeline's failures.                           *)

\* the variants of PfaError
PfaErrors ==
    {"CustomError", "DecryptUnencryptedFileError", "FileDecryptError",
     "EncryptedFileKeyNotProvided", "IOError", "MalformedPathError",
     "ErrorCorrectionError", "StringDecodeError", "FailedDecompressionError",
     "Unknown"}

\* C23: Pipeline failures are error values: whatever the flag byte, the
\* stored payload (corrupted or not) and the key, the reverse pipeline
\* returns Ok or a PfaError, and a payload whose error correction fails is
\* reported as the ecc-failed error; the caller is never aborted.
C23_FailuresAreErrors ==
    fl_pc = "done" =>
        /\ fl_result.status \in {"Ok"} \cup PfaErrors
        /\ (/\ HasBit(fl_written.bits, ERROR_CORRECTION)
            /\ UnprocessEcc(fl_stored).status # "Ok")
              => fl_result.status = "ErrorCorrectionError"

----------------------------------------------------------------------------
(* Properties of the order of insertions in apply_diff.                     *)

\* the place of a group in the order verbatim, patched, added
GroupRank(group) ==
    IF group = "verbatim" THEN 1 ELSE IF group = "patched" THEN 2 ELSE 3

\* the log entries of one group, in the order of the log
RECURSIVE OfGroup(_, _)
OfGroup(log, group) ==
    IF Len(log) = 0 THEN <<>>
    ELSE (IF Head(log).group = group THEN <<Head(log).path>> ELSE <<>>)
            \o OfGroup(Tail(log), group)

\* C24: Insertion order of diff-apply groups: in every execution the files
\* copied verbatim from old are inserted before any patched file and the
\* added files after all patched files, in the order of the diff's
\* additions; only the order among the patched files varies.
C24_GroupOrder ==
    /\ \A i, j \in 1..Len(d_log) :
          i < j => GroupRank(d_log[i].group) <= GroupRank(d_log[j].group)
    /\ d_pc = "applied" =>
          /\ OfGroup(d_log, "added")
                = [i \in 1..Len(d_lists.added) |-> d_lists.added[i].path]
          /\ {d_tasks[i].path : i \in 1..Len(d_tasks)}
                = {OfGroup(d_log, "patched")[i] :
                      i \in 1..Len(OfGroup(d_log, "patched"))}

\* C24 witness: an execution that inserted a verbatim file, then two patched
\* files, the second of the queue first, then an added file
C24_Witness ==
    /\ d_pc = "applied"
    /\ Len(d_tasks) = 2
    /\ OfGroup(d_log, "patched") = <<d_tasks[2].path, d_tasks[1].path>>
    /\ Len(OfGroup(d_log, "verbatim")) >= 1
    /\ Len(OfGroup(d_log, "added")) >= 1

----------------------------------------------------------------------------
(* Properties of what apply_diff leaves alone.                              *)

\* the paths of the diff's 'removed' and 'changed' lists, as apply_diff
\* reads them
RemovedPaths == {d_lists.removed[i] : i \in 1..Len(d_lists.removed)}
ChangedPaths == {d_lists.changed[i].path : i \in 1..Len(d_lists.changed)}

\* C25: Frame of diff-apply: every file of old whose path is in neither
\* the 'removed' nor the 'changed' list of the diff is in the output under
\* the same path with the same bytes, and no file of old whose path is in
\* 'removed' is in the output.
C25_ApplyFrame ==
    d_pc = "applied" =>
        LET old == FilesOf(d_base)
            out == FilesOf(d_out)
        IN  \A i \in 1..Len(old) :
                /\ old[i].path \notin RemovedPaths \cup ChangedPaths
                      => \E j \in 1..Len(out) : out[j] = old[i]
                /\ old[i].path \in RemovedPaths
                      => \A j \in 1..Len(out) : out[j].path # old[i].path

----------------------------------------------------------------------------
(* Properties of get_directory.                                             *)

\* the last path looked up has no trailing '/'
NoTrailingSlash == lookup.path # <<>> /\ ~ends_with_slash(lookup.path)

\* get_directory of the last path looked up, written with a trailing '/'
WithSlash ==
    get_directory(ReaderNew(archive), PathFrom(Append(lookup.path, "/")))

\* C26: get_directory normalises its argument: for a directory of the
\* archive, get_directory of the path written without the trailing '/'
\* returns the listing that get_directory returns for the path written
\* with it.
C26_GetDirectoryNormalises ==
    (NoTrailingSlash /\ WithSlash.kind = "Directory") =>
        /\ lookup.directory.kind = "Directory"
        /\ lookup.directory.contents = WithSlash.contents

----------------------------------------------------------------------------
(* Properties of lookups by any path string.                                *)

\* C27: Lookup terminates: on a catalog build() produced, get_path of any
\* path string, rooted or not, in file or in directory form, returns File,
\* Directory or not-found; the loop never runs on without end, also when
\* a segment names an entry of the other kind.
C27_LookupTerminates ==
    lookup.path # <<>> => lookup.result.kind \in {"File", "Directory", "None"}

\* the segments a path string names below the root, the leading empty part
\* of a rooted path and the trailing empty part of a directory path set aside
Location(p) ==
    LET parts == PathFrom(p)
        below == IF starts_with_slash(p) THEN Tail(parts) ELSE parts
    IN  IF Len(below) > 0 /\ below[Len(below)] = <<>>
        THEN SubSeq(below, 1, Len(below) - 1) ELSE below

RECURSIVE NodesAt(_, _)
\* the nodes of the tree at the location segs below the directory node
NodesAt(node, segs) ==
    IF Len(segs) = 0 THEN {node}
    ELSE IF node.kind = "File" THEN {}
    ELSE UNION {NodesAt(node.contents[i], Tail(segs)) :
                  i \in {j \in 1..Len(node.contents) :
                            node.contents[j].name = Head(segs)}}

\* C28: No misplaced match: get_path returns a File only if the tree holds
\* a file with those bytes at exactly the requested location, and a
\* Directory only if it holds a directory there; a path with no leading
\* '/' is not resolved to an entry of that name inside a subdirectory.
C28_NoMisplacedMatch ==
    lookup.path # <<>> =>
        /\ lookup.result.kind = "File" =>
              \E n \in NodesAt(file_tree, Location(lookup.path)) :
                  n.kind = "File" /\ n.data = lookup.result.contents
        /\ lookup.result.kind = "Directory" =>
              \E n \in NodesAt(file_tree, Location(lookup.path)) :
                  n.kind = "Directory"

----------------------------------------------------------------------------
(* Properties of add_directory.                                             *)

RECURSIVE DirectoryLocations(_, _)
\* the locations of the directories below node: the names from the root down
DirectoryLocations(node, prefix) ==
    IF node.kind = "File" THEN {}
    ELSE UNION { {Append(prefix, node.contents[i].name)} \cup
                    DirectoryLocations(node.contents[i],
                                       Append(prefix, node.contents[i].name)) :
                 i \in {j \in 1..Len(node.contents) :
                           node.contents[j].kind = "Directory"} }

RECURSIVE NonEmpty(_)
\* the non-empty segments of a list of parts
NonEmpty(parts) ==
    IF Len(parts) = 0 THEN <<>>
    ELSE (IF Head(parts) = <<>> THEN <<>> ELSE <<Head(parts)>>)
            \o NonEmpty(Tail(parts))

\* the non-empty segment prefixes of a path string
SegmentPrefixes(p) ==
    LET segs == NonEmpty(Split(p))
    IN  {SubSeq(segs, 1, n) : n \in 1..Len(segs)}

\* C29: add_directory creates nothing extra: a successful add_directory(p)
\* leaves the directories that were there and adds one directory per
\* non-empty segment prefix of p and no other; no directory with an empty
\* name is inserted.
C29_AddDirectoryExact ==
    [][(/\ opCount' = opCount + 1
        /\ lastOp'.op = "add_directory"
        /\ lastResult' = NoErr)
         => /\ DirectoryLocations(file_tree', <<>>)
                 = DirectoryLocations(file_tree, <<>>)
                      \cup SegmentPrefixes(lastOp'.path)
            /\ \A d \in Directories(file_tree') :
                  d = file_tree' \/ d.name # <<>>]_vars

----------------------------------------------------------------------------
(* Opening an archive through a source that splits its reads                *)

\* the position of the field PfaReader::new is about to read, when every
\* field before it took exactly its length
FieldStart ==
    LET name_at == Len(Watermark) + 1 + 1
        extra_at == name_at + Len(r_in.name) + 1
        catalog_at == extra_at + Len(r_in.extra_data) + 8
    IN  CASE r_pc = "watermark" -> 0
          [] r_pc = "version" -> Len(Watermark)
          [] r_pc = "name" -> Len(Watermark) + 1
          [] r_pc = "extra_data" -> extra_at - 1
          [] r_pc = "num_entries" -> catalog_at - 8
          [] OTHER -> catalog_at + (MAX_SIZE + 8 + 8) * Len(r_reader.entries)

\* the entries of the archive file as a reader is to yield them
FileEntries ==
    [i \in 1..Len(r_in.catalog) |->
        CatalogEntry(r_in.catalog[i].name, r_in.catalog[i].size,
                     r_in.catalog[i].offset)]

\* C30: parsing is independent of read chunking.  However the byte source
\* splits its reads, PfaReader::new does not fail on a well-formed archive,
\* stands after each field at the position where the next one starts (the
\* header strings took name_len and extra_len bytes, every catalog entry
\* 48), and yields the name, the extra data and the catalog entries the
\* file holds, with data_idx right behind the catalog.
C30_ChunkingIndependent ==
    /\ r_pc # "failed"
    /\ r_pc # "idle" => r_src.pos = FieldStart
    /\ r_pc \in {"extra_data", "num_entries", "entries", "opened"}
          => r_reader.name = r_in.name
    /\ r_pc \in {"num_entries", "entries", "opened"}
          => r_reader.extra_data = r_in.extra_data
    /\ r_pc \in {"entries", "opened"}
          => /\ r_reader.num_entries = Len(r_in.catalog)
             /\ r_reader.entries
                   = SubSeq(FileEntries, 1, Len(r_reader.entries))
    /\ r_pc = "opened"
          => /\ r_reader.entries = FileEntries
             /\ r_reader.data_idx = FieldStart

============================================================================
